---- MODULE Spec2Model ----
(***************************************************************************)
(* Model of the realtime relay of gpt-realtime-agents:                     *)
(*   acs/rtmt.py      RTMiddleTier (forward_messages and its two loops,    *)
(*                    _process_message_to_client, _process_message_to_server)*)
(*   acs/helpers.py   transform_acs_to_openai_format,                      *)
(*                    transform_openai_to_acs_format                       *)
(*   backend_acs.py, acs/bridges/base.py   the two FastAPIWebSocketAdapter *)
(*                    variants that stand between the relay and the client *)
(* Python None is the string Null where a scalar is expected and NoneMsg   *)
(* where a message is expected; a dict is a record; a JSON text is a       *)
(* record wrapping the value it encodes, or a raw string that does not     *)
(* parse.                                                                  *)
(***************************************************************************)
EXTENDS Naturals, Sequences, FiniteSets, TLC

\* ------------------------------------------------------------------ bounds
\* Frames and socket events the two loops may read, both directions together.
MaxFrames == 3

\* ------------------------------------------------------------ Python values
Null == "null"
NoneMsg == [py_none |-> TRUE]
EmptyDict == <<>>

Has(d, k) == k \in DOMAIN d

\* d[k] = v on a dict (adds the key when it is missing)
Put(d, k, v) == [x \in (DOMAIN d) \cup {k} |-> IF x = k THEN v ELSE d[x]]

\* json.dumps / json.loads: a text is either the encoding of a value or a
\* raw string no value encodes to
json_dumps(v) == [json |-> v]
BadJson == [raw |-> "{not json"]
IsJson(t) == Has(t, "json")
json_loads(t) == t.json

\* -------------------------------------------------------- session config
\* The tool registry holds at most this one tool; its schema is opaque.
KnownTool == "get_billing_info"
UnknownTool == "no_such_tool"
Schema(n) == "schema:" \o n

\* [tool.schema for tool in tools.values()] as an opaque JSON list
SchemasOf(reg) == IF reg = {} THEN "[]" ELSE "[" \o Schema(KnownTool) \o "]"

\* "auto" if len(tools) > 0 else "none"
ToolChoice(reg) == IF Cardinality(reg) > 0 THEN "auto" ELSE "none"

\* session_config.json: the two named profiles; some keys are present with
\* a null value
SESSION_CONFIG(config_key) ==
    IF config_key = "voicelive"
    THEN [voice |-> "en-US-Ava", input_audio_format |-> "pcm16",
          temperature |-> Null, max_response_output_tokens |-> Null]
    ELSE [voice |-> "alloy", input_audio_format |-> "pcm16",
          temperature |-> Null, max_response_output_tokens |-> Null]

\* fault: keys with a null value stay in the session
DropNullsKeepsAll(d) == d

\* {k: v for k, v in session_data.items() if v is not None}
DropNulls(d) == [k \in {x \in DOMAIN d : d[x] # Null} |-> d[k]]

PutIfSet(d, k, v) == IF v # Null THEN Put(d, k, v) ELSE d

\* the module global after "SESSION_CONFIG = json.load(f)", no session served yet
AsLoaded ==
    [config |-> [k \in {"voicelive", "realtime"} |-> SESSION_CONFIG(k)],
     updates |-> <<>>]

\* fault: session_data is the profile itself, not a copy of it
SharedReference(profiles, config_key) == [ref |-> config_key, val |-> profiles[config_key]]

\* json.loads(json.dumps(SESSION_CONFIG[config_key])): an object of its own
\* with the profile's content
DeepCopy(profiles, config_key) == [ref |-> "copy", val |-> profiles[config_key]]

\* the assignments to session_data's keys
Overlaid(s0, reg, system_message, temperature, max_tokens, disable_audio) ==
    LET s1 == Put(s0, "tool_choice", ToolChoice(reg))
        s2 == Put(s1, "tools", SchemasOf(reg))
        s3 == PutIfSet(s2, "instructions", system_message)
        s4 == PutIfSet(s3, "temperature", temperature)
        s5 == PutIfSet(s4, "max_response_output_tokens", max_tokens)
    IN  PutIfSet(s5, "disable_audio", disable_audio)

\* the AudioMetadata branch of transform_acs_to_openai_format
SessionData(reg, system_message, temperature, max_tokens, disable_audio, use_voicelive) ==
    LET config_key == IF use_voicelive THEN "voicelive" ELSE "realtime"
        s0 == SESSION_CONFIG(config_key)
        s1 == Put(s0, "tool_choice", ToolChoice(reg))
        s2 == Put(s1, "tools", SchemasOf(reg))
        s3 == PutIfSet(s2, "instructions", system_message)
        s4 == PutIfSet(s3, "temperature", temperature)
        s5 == PutIfSet(s4, "max_response_output_tokens", max_tokens)
        s6 == PutIfSet(s5, "disable_audio", disable_audio)
    IN  DropNulls(s6)

\* fault: an empty payload counts as no payload
transform_acs_skips_empty(msg_data, reg, system_message, temperature, max_tokens, disable_audio, use_voicelive) ==
    IF ~Has(msg_data, "kind") THEN NoneMsg
    ELSE IF msg_data.kind = "AudioMetadata"
    THEN [type |-> "session.update",
          session |-> SessionData(reg, system_message, temperature,
                                  max_tokens, disable_audio, use_voicelive)]
    ELSE IF msg_data.kind = "AudioData"
    THEN IF /\ Has(msg_data, "audioData") /\ Has(msg_data.audioData, "data")
            /\ msg_data.audioData.data # ""
         THEN [type |-> "input_audio_buffer.append",
               audio |-> msg_data.audioData.data]
         ELSE NoneMsg
    ELSE NoneMsg

\* fault: a message that is already a model event is passed on as it is
transform_acs_passes_events(msg_data, reg, system_message, temperature, max_tokens, disable_audio, use_voicelive) ==
    IF ~Has(msg_data, "kind") THEN (IF Has(msg_data, "type") THEN msg_data ELSE NoneMsg)
    ELSE IF msg_data.kind = "AudioMetadata"
    THEN [type |-> "session.update",
          session |-> SessionData(reg, system_message, temperature,
                                  max_tokens, disable_audio, use_voicelive)]
    ELSE IF msg_data.kind = "AudioData"
    THEN IF Has(msg_data, "audioData") /\ Has(msg_data.audioData, "data")
         THEN [type |-> "input_audio_buffer.append",
               audio |-> msg_data.audioData.data]
         ELSE NoneMsg
    ELSE NoneMsg

transform_acs_to_openai_format(msg_data, reg, system_message, temperature, max_tokens, disable_audio, use_voicelive) ==
    IF ~Has(msg_data, "kind") THEN NoneMsg          \* KeyError, caught
    ELSE IF msg_data.kind = "AudioMetadata"
    THEN [type |-> "session.update",
          session |-> SessionData(reg, system_message, temperature,
                                  max_tokens, disable_audio, use_voicelive)]
    ELSE IF msg_data.kind = "AudioData"
    THEN IF Has(msg_data, "audioData") /\ Has(msg_data.audioData, "data")
         THEN [type |-> "input_audio_buffer.append",
               audio |-> msg_data.audioData.data]
         ELSE NoneMsg                               \* KeyError, caught
    ELSE NoneMsg

\* fault: only the current name of the audio delta is known
transform_openai_new_name_only(msg_data) ==
    IF msg_data.type = "input_audio_buffer.speech_started"
    THEN [kind |-> "StopAudio", audioData |-> Null, stopAudio |-> EmptyDict]
    ELSE IF msg_data.type = "response.output_audio.delta"
    THEN [kind |-> "AudioData", audioData |-> [data |-> msg_data.delta]]
    ELSE NoneMsg

\* fault: a barge-in is not passed on
transform_openai_drops_barge_in(msg_data) ==
    IF msg_data.type \in {"response.output_audio.delta", "response.audio.delta"}
    THEN [kind |-> "AudioData", audioData |-> [data |-> msg_data.delta]]
    ELSE NoneMsg

\* fault: a message with no telephony form is passed on as it is
transform_openai_passes_others(msg_data) ==
    IF msg_data.type = "input_audio_buffer.speech_started"
    THEN [kind |-> "StopAudio", audioData |-> Null, stopAudio |-> EmptyDict]
    ELSE IF msg_data.type \in {"response.output_audio.delta", "response.audio.delta"}
    THEN [kind |-> "AudioData", audioData |-> [data |-> msg_data.delta]]
    ELSE msg_data

transform_openai_to_acs_format(msg_data) ==
    IF msg_data.type = "input_audio_buffer.speech_started"
    THEN [kind |-> "StopAudio", audioData |-> Null, stopAudio |-> EmptyDict]
    ELSE IF msg_data.type \in {"response.output_audio.delta", "response.audio.delta"}
    THEN [kind |-> "AudioData", audioData |-> [data |-> msg_data.delta]]
    ELSE NoneMsg

\* ------------------------------------------------- the Pending-Call Tracker
\* _tools_pending: dict call_id -> RTToolCall(call_id, previous_item_id), as
\* the set of its values; the code inserts a call_id only when it is absent
RTToolCall(call_id, previous_item_id) ==
    [call_id |-> call_id, previous_item_id |-> previous_item_id]

InPending(pending, call_id) == \E t \in pending : t.call_id = call_id

\* ------------------------------------------ _process_message_to_client
\* Step 1 of the handler, up to its first await: what it raises, the
\* tracker it leaves, the message it sends to the model, whether it goes
\* on to await a tool executor, and the message that continues to step 2.
Outcome(exc, pending, send, tool, out) ==
    [exc |-> exc, pending |-> pending, send |-> send, tool |-> tool, out |-> out]

Raises(exc, pending) == Outcome(exc, pending, NoneMsg, FALSE, NoneMsg)
Pass(message, pending) == Outcome("none", pending, NoneMsg, FALSE, message)
\* fault: a consumed message goes on to the client as an argument fragment
ConsumeForwards(pending) ==
    Outcome("none", pending, NoneMsg, FALSE,
            [type |-> "response.function_call_arguments.delta", delta |-> "{"])

Consume(pending) == Outcome("none", pending, NoneMsg, FALSE, NoneMsg)

\* fault: the message sent to the model is not a response.create
ResponseCancel == [type |-> "response.cancel"]

ResponseCreate == [type |-> "response.create"]

IsFunctionCallItem(message) ==
    Has(message, "item") /\ message.item.type = "function_call"

\* for output in reversed(outputs): if output["type"] == "function_call":
\*     outputs.remove(output)
\* list.remove deletes the first element equal to its argument; the reversed
\* iterator keeps an index and stops when the index is no longer in the list
RemoveFirst(outputs, x) ==
    LET i == CHOOSE j \in 1..Len(outputs) :
                 outputs[j] = x /\ \A k \in 1..(j-1) : outputs[k] # x
    IN  SubSeq(outputs, 1, i-1) \o SubSeq(outputs, i+1, Len(outputs))

RECURSIVE ReversedRemove(_, _)
ReversedRemove(outputs, index) ==
    IF index < 1 \/ index > Len(outputs) THEN outputs
    ELSE IF outputs[index].type = "function_call"
         THEN ReversedRemove(RemoveFirst(outputs, outputs[index]), index - 1)
         ELSE ReversedRemove(outputs, index - 1)

\* fault: only the last item of response.output is looked at
FilterOutputsLastOnly(message) ==
    IF Has(message, "response") /\ message.response.output # <<>>
       /\ message.response.output[Len(message.response.output)].type = "function_call"
    THEN [message EXCEPT !.response.output = SubSeq(@, 1, Len(@) - 1)]
    ELSE message

FilterOutputs(message) ==
    IF Has(message, "response")
    THEN [message EXCEPT !.response.output =
              ReversedRemove(message.response.output, Len(message.response.output))]
    ELSE message

\* fault: the echoed tool_choice is left in place
StripSessionKeepsToolChoice(message) ==
    [message EXCEPT !.session =
        Put(Put(Put(message.session, "instructions", ""),
                "tools", "[]"),
            "max_response_output_tokens", Null)]

StripSession(message) ==
    [message EXCEPT !.session =
        Put(Put(Put(Put(message.session, "instructions", ""),
                    "tools", "[]"),
                "tool_choice", "none"),
            "max_response_output_tokens", Null)]

\* fault: every announcement inserts an entry, pending or not
ItemAddedAlwaysInserts(message, pending) ==
    IF IsFunctionCallItem(message)
    THEN Consume(pending \cup
                   {RTToolCall(message.item.call_id, message.previous_item_id)})
    ELSE Pass(message, pending)

ItemAdded(message, pending) ==
    IF IsFunctionCallItem(message)
    THEN IF InPending(pending, message.item.call_id)
         THEN Consume(pending)
         ELSE IF Has(message, "previous_item_id")
              THEN Consume(pending \cup
                     {RTToolCall(message.item.call_id, message.previous_item_id)})
              ELSE Raises("KeyError", pending)
    ELSE IF Has(message, "item") /\ message.item.type = "function_call_output"
    THEN Consume(pending)
    ELSE Pass(message, pending)

\* fault: the executor is awaited without the two lookups
OutputItemDoneSkipsLookups(message, pending, reg) ==
    IF IsFunctionCallItem(message)
    THEN IF ~IsJson(message.item.arguments) THEN Raises("ValueError", pending)
         ELSE Outcome("none", pending, NoneMsg, TRUE, NoneMsg)
    ELSE Pass(message, pending)

OutputItemDone(message, pending, reg) ==
    IF IsFunctionCallItem(message)
    THEN IF ~InPending(pending, message.item.call_id) THEN Raises("KeyError", pending)
         ELSE IF message.item.name \notin reg THEN Raises("KeyError", pending)
         ELSE IF ~IsJson(message.item.arguments) THEN Raises("ValueError", pending)
         ELSE Outcome("none", pending, NoneMsg, TRUE, NoneMsg)
    ELSE Pass(message, pending)

\* fault: response.done asks for a new response whether or not a call is pending
ResponseDoneAlwaysCreates(message, pending) ==
    Outcome("none", {}, ResponseCreate, FALSE, FilterOutputs(message))

ResponseDone(message, pending) ==
    IF Cardinality(pending) > 0
    THEN Outcome("none", {}, ResponseCreate, FALSE, FilterOutputs(message))
    ELSE Pass(FilterOutputs(message), pending)

\* fault: the default case consumes the message
UnhandledDrops(message, pending) == Consume(pending)

\* case _: the type is none of the names the match statement lists
Unhandled(message, pending) == Pass(message, pending)

\* the event names _process_message_to_client has a case for
RecognisedTypes ==
    {"error", "session.created", "session.updated", "response.output_item.added",
     "conversation.item.added", "response.function_call_arguments.delta",
     "response.function_call_arguments.done", "response.output_item.done",
     "response.done", "input_audio_buffer.speech_started",
     "input_audio_buffer.speech_stopped", "input_audio_buffer.committed",
     "input_audio_buffer.cleared",
     "conversation.item.input_audio_transcription.completed",
     "conversation.item.input_audio_transcription.failed",
     "conversation.item.done", "response.created", "response.content_part.added",
     "response.output_audio_transcript.delta", "response.output_audio_transcript.done",
     "response.output_audio.delta", "response.output_audio.done",
     "response.output_text.delta", "response.content_part.done",
     "response.output_text.done", "rate_limits.updated"}

\* fault: the session.updated case overwrites the session fields as well
HandleStripsUpdated(message, pending, reg) ==
    IF ~Has(message, "type") THEN Raises("KeyError", pending)
    ELSE IF message.type = "session.created"
    THEN IF Has(message, "session") THEN Pass(StripSession(message), pending)
         ELSE Raises("KeyError", pending)
    ELSE IF message.type = "session.updated"
    THEN IF Has(message, "session")
         THEN Outcome("none", pending, ResponseCreate, FALSE, StripSession(message))
         ELSE Raises("KeyError", pending)
    ELSE IF message.type = "response.output_item.added"
    THEN IF IsFunctionCallItem(message) THEN Consume(pending) ELSE Pass(message, pending)
    ELSE IF message.type = "conversation.item.added" THEN ItemAdded(message, pending)
    ELSE IF message.type \in {"response.function_call_arguments.delta",
                              "response.function_call_arguments.done"}
    THEN Consume(pending)
    ELSE IF message.type = "response.output_item.done"
    THEN OutputItemDone(message, pending, reg)
    ELSE IF message.type = "response.done" THEN ResponseDone(message, pending)
    ELSE IF message.type \in RecognisedTypes THEN Pass(message, pending)
    ELSE Unhandled(message, pending)

Handle(message, pending, reg) ==
    IF ~Has(message, "type") THEN Raises("KeyError", pending)
    ELSE IF message.type = "session.created"
    THEN IF Has(message, "session") THEN Pass(StripSession(message), pending)
         ELSE Raises("KeyError", pending)
    ELSE IF message.type = "session.updated"
    THEN Outcome("none", pending, ResponseCreate, FALSE, message)
    ELSE IF message.type = "response.output_item.added"
    THEN IF IsFunctionCallItem(message) THEN Consume(pending) ELSE Pass(message, pending)
    ELSE IF message.type = "conversation.item.added" THEN ItemAdded(message, pending)
    ELSE IF message.type \in {"response.function_call_arguments.delta",
                              "response.function_call_arguments.done"}
    THEN Consume(pending)
    ELSE IF message.type = "response.output_item.done"
    THEN OutputItemDone(message, pending, reg)
    ELSE IF message.type = "response.done" THEN ResponseDone(message, pending)
    ELSE IF message.type \in RecognisedTypes THEN Pass(message, pending)
    ELSE Unhandled(message, pending)

\* the function_call_output the handler sends once the executor has returned
str(result) == [str |-> result]

\* fault: the output is filed under the tool's name instead of the call_id
FunctionCallOutputByName(item, result) ==
    [type |-> "conversation.item.create",
     item |-> [type |-> "function_call_output",
               call_id |-> item.name,
               output |-> str(result)]]

FunctionCallOutput(item, result) ==
    [type |-> "conversation.item.create",
     item |-> [type |-> "function_call_output",
               call_id |-> item.call_id,
               output |-> str(result)]]

\* ------------------------------------------ _process_message_to_server
\* the session.update overlay
\* fault: instructions are a default, kept when the client supplies its own
EnforceSessionKeepsInstructions(data, reg, system_message) ==
    LET session == IF Has(data, "session") THEN data.session ELSE EmptyDict
        s1 == IF Has(session, "instructions") THEN session
              ELSE Put(session, "instructions", system_message)
        s2 == Put(s1, "tool_choice", ToolChoice(reg))
        s3 == Put(s2, "tools", SchemasOf(reg))
        s4 == Put(s3, "type", "realtime")
    IN  Put(data, "session", s4)

EnforceSession(data, reg, system_message) ==
    LET session == IF Has(data, "session") THEN data.session ELSE EmptyDict
        s1 == Put(session, "instructions", system_message)
        s2 == Put(s1, "tool_choice", ToolChoice(reg))
        s3 == Put(s2, "tools", SchemasOf(reg))
        s4 == Put(s3, "type", "realtime")
    IN  Put(data, "session", s4)

\* ------------------------------------------------------------- the state
VARIABLES
    adapter_kind,         \* which FastAPIWebSocketAdapter wraps the client socket
    is_acs_audio_stream,  \* forward_messages' routing flag (telephony route)
    key,                  \* RTMiddleTier.key, Null when no static key is set
    token_provider,       \* RTMiddleTier._token_provider, Null when there is none
    tools,                \* RTMiddleTier.tools, the names registered
    system_message,       \* RTMiddleTier.system_message
    headers,              \* the headers ws_connect was given
    fwd,                  \* forward_messages: "init", "running", "returned", "raised"
    target_ws,            \* the model-side connection
    c2s,                  \* from_client_to_server: "idle", "read", "done", "failed"
    s2c,                  \* from_server_to_client: "idle", "read", "tool", "done", "failed"
    first_exc,            \* the exception gather() hands to forward_messages
    tools_pending,        \* RTMiddleTier._tools_pending
    cur,                  \* the function_call item whose executor is awaited
    adapter_closed,       \* FastAPIWebSocketAdapter._closed
    client_sock,          \* the client's socket: "open" or "gone"
    from_client,          \* the frames from_client_to_server has read, in order
    from_model,           \* the frames from_server_to_client has read, in order
    to_model,             \* what was sent on target_ws: by which loop, for which
                          \* of its frames, and whether an executor was awaited then
    to_client,            \* texts written to the client's socket, and for which frame
    executed,             \* executor invocations: tool name and parsed arguments
    closers,              \* the callers of the adapter's close(), and how far each is
    close_frames,         \* close frames written to the client's socket
    peer,                 \* a second forward_messages run on the same RTMiddleTier
    response_output,      \* response.output of the response.done the model sends
    overrides,            \* RTMiddleTier.temperature, .max_tokens, .disable_audio,
                          \* .use_voicelive_for_acs
    twins,                \* one adapter of each variant, given the same events and calls
    loaded                \* helpers.SESSION_CONFIG, the object every session reads, and
                          \* the session.update sent for each AudioMetadata so far

config == <<adapter_kind, is_acs_audio_stream, key, token_provider, tools, system_message>>
logs == <<from_client, from_model, to_model, to_client, executed>>

\* socket reads so far, both loops together
nread == Len(from_client) + Len(from_model)
\* what a single forward_messages run never touches
ext == <<closers, close_frames, peer, response_output, overrides, twins, loaded>>
vars == <<config, headers, fwd, target_ws, c2s, s2c, first_exc, tools_pending, cur,
          adapter_closed, client_sock, logs, ext>>

\* ---------------------------------------------------------------- frames
TextFrame(text) == [type |-> "TEXT", data |-> text]
BinaryFrame == [type |-> "BINARY", data |-> [bytes |-> "b"]]
\* a socket event that is neither text, bytes nor a disconnect
OtherEvent == [type |-> "websocket.other", data |-> [event |-> "other"]]

FunctionCall(call_id, name, arguments) ==
    [type |-> "function_call", call_id |-> call_id, name |-> name,
     arguments |-> arguments]

GoodArgs == json_dumps([account |-> "42"])
MessageItem == [type |-> "message", id |-> "m1"]

EchoedSession ==
    [instructions |-> "SYS", tools |-> "[schema:get_billing_info]",
     tool_choice |-> "auto", max_response_output_tokens |-> "4096",
     voice |-> "alloy"]

\* what the model may send, as decoded messages
ModelMsgs == <<
    [type |-> "session.created", session |-> EchoedSession],
    [type |-> "session.updated", session |-> EchoedSession],
    [type |-> "conversation.item.added", previous_item_id |-> "i0",
     item |-> FunctionCall("c1", KnownTool, GoodArgs)],
    [type |-> "response.output_item.done",
     item |-> FunctionCall("c1", KnownTool, GoodArgs)],
    [type |-> "response.output_item.done",
     item |-> FunctionCall("c1", UnknownTool, GoodArgs)],
    [type |-> "response.done",
     response |-> [output |-> <<FunctionCall("c1", KnownTool, GoodArgs), MessageItem>>]],
    [type |-> "response.output_audio.delta", delta |-> "QUJD"],
    [type |-> "input_audio_buffer.speech_started"],
    [type |-> "vendor.unrecognised", payload |-> "p"],
    [event |-> "no type"] >>

\* what the client may send, as decoded messages
ClientMsgs == <<
    [type |-> "session.update",
     session |-> [instructions |-> "leak", tools |-> "[client-tool]",
                  tool_choice |-> "required", voice |-> "alloy"]],
    [type |-> "input_audio_buffer.append", audio |-> "QUJD"],
    [kind |-> "AudioMetadata"],
    [kind |-> "AudioData", audioData |-> [data |-> "QUJD"]] >>

Texts(msgs) == [i \in 1..Len(msgs) |-> json_dumps(msgs[i])] \o <<BadJson>>
Frames(msgs) == [i \in 1..(Len(msgs) + 1) |-> TextFrame(Texts(msgs)[i])] \o <<BinaryFrame>>

ModelFrames == Frames(ModelMsgs)
ClientFrames == Frames(ClientMsgs)

\* the executor of the registered tool
ToolResult(name, args) == [billing |-> "paid", account |-> args.account]

\* ------------------------------------------------------------------ Init
\* the most callers of close() at a time
MaxClosers == 2
Closers == 1..MaxClosers

\* nobody has called close(); no second run has started
NoClose == [c \in Closers |-> "idle"]
\* the attributes __init__ leaves at their defaults
NoOverrides ==
    [temperature |-> Null, max_tokens |-> Null, disable_audio |-> Null,
     use_voicelive |-> FALSE]
\* a fresh adapter of each variant: _closed is False, nothing observed yet
FreshAdapter == [closed |-> FALSE, seen |-> <<>>, wrote |-> <<>>]
NoTwins == [backend_acs |-> FreshAdapter, base |-> FreshAdapter, calls |-> 0]
NoPeer == [fwd |-> "init", s2c |-> "idle", exc |-> "none",
           from_model |-> <<>>, to_model |-> <<>>, to_client |-> <<>>]

Init ==
    /\ closers = NoClose /\ close_frames = 0 /\ peer = NoPeer
    /\ response_output = <<>> /\ twins = NoTwins /\ loaded = AsLoaded
    /\ overrides = NoOverrides
    /\ adapter_kind \in {"backend_acs", "base"}
    /\ is_acs_audio_stream \in BOOLEAN
    /\ \E cred \in {<<"k", Null>>, <<Null, Null>>} :
          key = cred[1] /\ token_provider = cred[2]
    /\ tools \in {{KnownTool}, {}}
    /\ system_message = "SYS"
    /\ headers = EmptyDict
    /\ fwd = "init"
    /\ target_ws = "none"
    /\ c2s = "idle"
    /\ s2c = "idle"
    /\ first_exc = "none"
    /\ tools_pending = {}
    /\ cur = NoneMsg
    /\ adapter_closed = FALSE
    /\ client_sock = "open"
    /\ from_client = <<>>
    /\ from_model = <<>>
    /\ to_model = <<>>
    /\ to_client = <<>>
    /\ executed = <<>>

\* ------------------------------------------------------- the client adapter
IsNone(message) == Has(message, "py_none")

\* FastAPIWebSocketAdapter.send_str: what it raises, _closed afterwards, and
\* what it wrote to the socket
SendResult(exc, closed, wrote) == [exc |-> exc, closed |-> closed, wrote |-> wrote]

\* fault: the write is attempted whether or not the adapter is closed
send_str_unguarded(kind, closed, sock, data) ==
    IF sock = "open" THEN SendResult("none", closed, <<data>>)
    ELSE IF kind = "backend_acs" THEN SendResult("none", TRUE, <<>>)
    ELSE SendResult("WebSocketDisconnect", closed, <<>>)

\* fault: the text is written twice
send_str_twice(kind, closed, sock, data) ==
    IF closed THEN SendResult("none", TRUE, <<>>)
    ELSE IF sock = "open" THEN SendResult("none", FALSE, <<data, data>>)
    ELSE IF kind = "backend_acs" THEN SendResult("none", TRUE, <<>>)
    ELSE SendResult("WebSocketDisconnect", FALSE, <<>>)

send_str(kind, closed, sock, data) ==
    IF closed THEN SendResult("none", TRUE, <<>>)
    ELSE IF sock = "open" THEN SendResult("none", FALSE, <<data>>)
    ELSE IF kind = "backend_acs" THEN SendResult("none", TRUE, <<>>)
    ELSE SendResult("WebSocketDisconnect", FALSE, <<>>)

\* a loop ends with an exception: gather() keeps the first one
Failed(exc) == IF first_exc = "none" THEN exc ELSE first_exc

\* ---------------------------------------------------- forward_messages
\* the auth headers, then ws_connect
\* fault: the token provider is never consulted
AuthHeadersKeyOnly(k, provider) ==
    IF k # Null THEN [api_key |-> k] ELSE EmptyDict

AuthHeaders(k, provider) ==
    IF k # Null THEN [api_key |-> k]
    ELSE IF provider # Null THEN [Authorization |-> "Bearer " \o provider]
    ELSE EmptyDict                              \* raise ValueError

Connect ==
    /\ fwd = "init"
    /\ IF key # Null \/ token_provider # Null
       THEN /\ headers' = AuthHeaders(key, token_provider)
            /\ fwd' = "running" /\ target_ws' = "open"
            /\ c2s' = "read" /\ s2c' = "read"
            /\ UNCHANGED first_exc
       ELSE /\ fwd' = "raised" /\ first_exc' = "ValueError"
            /\ UNCHANGED <<headers, target_ws, c2s, s2c>>
    /\ UNCHANGED <<config, ext, tools_pending, cur, adapter_closed, client_sock, logs>>

\* fault: the connection is left as it is when forward_messages exits
ExitScopeLeaks(ws) == ws

\* leaving "async with session.ws_connect(...) as target_ws"
ExitScope(ws) == "closed"

\* await asyncio.gather(...) resumes: with the first exception a loop raised,
\* or when both loops have ended; only ConnectionResetError is swallowed
Join ==
    /\ fwd = "running"
    /\ first_exc # "none" \/ (c2s = "done" /\ s2c = "done")
    /\ fwd' = IF first_exc \in {"none", "ConnectionResetError"}
              THEN "returned" ELSE "raised"
    /\ target_ws' = ExitScope(target_ws)
    /\ UNCHANGED <<config, ext, headers, c2s, s2c, first_exc, tools_pending, cur,
                   adapter_closed, client_sock, logs>>

\* ------------------------------------------------ from_client_to_server
\* _process_message_to_server on a decoded message, the read it came from
\* fault: the relay sets the session of every message it passes on
ToServerEnforcesAll(data0, at) ==
    LET data == IF is_acs_audio_stream
                THEN transform_acs_to_openai_format(data0, tools, system_message,
                                                    overrides.temperature,
                                                    overrides.max_tokens,
                                                    overrides.disable_audio,
                                                    overrides.use_voicelive)
                ELSE data0
    IN  IF IsNone(data) THEN [exc |-> "none", send |-> <<>>]
        ELSE IF ~Has(data, "type") THEN [exc |-> "KeyError", send |-> <<>>]
        ELSE IF target_ws # "open" THEN [exc |-> "ConnectionResetError", send |-> <<>>]
        ELSE [exc |-> "none",
              send |-> << [by |-> "c2s", at |-> at, tool |-> s2c = "tool",
                           data |-> json_dumps(EnforceSession(data, tools,
                                                              system_message))] >>]

ToServer(data0, at) ==
    LET data == IF is_acs_audio_stream
                THEN transform_acs_to_openai_format(data0, tools, system_message,
                                                    overrides.temperature,
                                                    overrides.max_tokens,
                                                    overrides.disable_audio,
                                                    overrides.use_voicelive)
                ELSE data0
    IN  IF IsNone(data) THEN [exc |-> "none", send |-> <<>>]
        ELSE IF ~Has(data, "type") THEN [exc |-> "KeyError", send |-> <<>>]
        ELSE IF target_ws # "open" THEN [exc |-> "ConnectionResetError", send |-> <<>>]
        ELSE [exc |-> "none",
              send |-> << [by |-> "c2s", at |-> at, tool |-> s2c = "tool",
                           data |-> json_dumps(IF data.type = "session.update"
                                               THEN EnforceSession(data, tools, system_message)
                                               ELSE data)] >>]

\* fault: the client->model loop waits while a tool executor is awaited
C2SCanReadUnlessTool == c2s = "read" /\ s2c # "tool"

\* "async for msg in ws" is waiting for the next frame
C2SCanRead == c2s = "read"

C2SFrame(frames) ==
    /\ C2SCanRead /\ client_sock = "open" /\ nread < MaxFrames
    /\ \E i \in 1..Len(frames) :
        LET msg == frames[i]
            at == Len(from_client) + 1
            r == IF msg.type # "TEXT" THEN [exc |-> "none", send |-> <<>>]
                 ELSE IF ~IsJson(msg.data) THEN [exc |-> "ValueError", send |-> <<>>]
                 ELSE ToServer(json_loads(msg.data), at)
        IN  /\ from_client' = Append(from_client, msg)
            /\ to_model' = to_model \o r.send
            /\ c2s' = IF r.exc = "none" THEN "read" ELSE "failed"
            /\ first_exc' = IF r.exc = "none" THEN first_exc ELSE Failed(r.exc)
    /\ UNCHANGED <<config, ext, headers, fwd, target_ws, s2c, tools_pending, cur,
                   adapter_closed, client_sock, from_model, to_client, executed>>

\* __anext__ on a socket event that is neither text, bytes nor a disconnect
C2SOtherEvent ==
    /\ C2SCanRead /\ client_sock = "open" /\ nread < MaxFrames
    /\ from_client' = Append(from_client, OtherEvent)
    /\ IF adapter_kind = "backend_acs"
       THEN UNCHANGED <<c2s, first_exc>>          \* return await self.__anext__()
       ELSE /\ c2s' = "failed"                    \* return raw; then raw.type
            /\ first_exc' = Failed("AttributeError")
    /\ UNCHANGED <<config, ext, headers, fwd, target_ws, s2c, tools_pending, cur,
                   adapter_closed, client_sock, from_model, to_model, to_client,
                   executed>>

\* fault: the client's disconnect clears the tracker
C2SDisconnectClearsTracker ==
    /\ C2SCanRead /\ client_sock = "gone"
    /\ adapter_closed' = TRUE
    /\ c2s' = "done"
    /\ tools_pending' = {}
    /\ UNCHANGED <<config, ext, headers, fwd, target_ws, s2c, first_exc,
                   cur, client_sock, logs>>

\* __anext__ on websocket.disconnect or WebSocketDisconnect
C2SDisconnect ==
    /\ C2SCanRead /\ client_sock = "gone"
    /\ adapter_closed' = TRUE
    /\ c2s' = "done"
    /\ UNCHANGED <<config, ext, headers, fwd, target_ws, s2c, first_exc, tools_pending,
                   cur, client_sock, logs>>

\* __anext__ when websocket.receive() raises anything else
C2SReceiveError ==
    /\ C2SCanRead /\ client_sock = "gone"
    /\ IF adapter_kind = "backend_acs"
       THEN /\ adapter_closed' = TRUE /\ c2s' = "done"
            /\ UNCHANGED first_exc
       ELSE /\ c2s' = "failed" /\ first_exc' = Failed("RuntimeError")
            /\ UNCHANGED adapter_closed
    /\ UNCHANGED <<config, ext, headers, fwd, target_ws, s2c, tools_pending, cur,
                   client_sock, logs>>

\* ------------------------------------------------ from_server_to_client
\* steps 2 and 3 of _process_message_to_client
ToClient(out0) ==
    LET out == IF is_acs_audio_stream /\ ~IsNone(out0)
               THEN transform_openai_to_acs_format(out0) ELSE out0
    IN  IF IsNone(out) THEN SendResult("none", adapter_closed, <<>>)
        ELSE send_str(adapter_kind, adapter_closed, client_sock, json_dumps(out))

Tagged(at, texts) == [i \in 1..Len(texts) |-> [at |-> at, data |-> texts[i]]]

S2CFrame(frames) ==
    /\ s2c = "read" /\ target_ws = "open" /\ nread < MaxFrames
    /\ \E i \in 1..Len(frames) :
        LET msg == frames[i]
            at == Len(from_model) + 1
            text == msg.type = "TEXT"
            h == IF text /\ IsJson(msg.data)
                 THEN Handle(json_loads(msg.data), tools_pending, tools)
                 ELSE IF text THEN Raises("ValueError", tools_pending)
                 ELSE Consume(tools_pending)
            c == IF h.exc = "none" /\ ~h.tool THEN ToClient(h.out)
                 ELSE SendResult(h.exc, adapter_closed, <<>>)
        IN  /\ from_model' = Append(from_model, msg)
            /\ tools_pending' = h.pending
            /\ to_model' = IF IsNone(h.send) THEN to_model
                           ELSE Append(to_model, [by |-> "s2c", at |-> at, tool |-> FALSE,
                                                  data |-> json_dumps(h.send)])
            /\ IF h.tool
               THEN /\ cur' = [at |-> at, item |-> json_loads(msg.data).item]
                    /\ executed' = Append(executed,
                            [at |-> at, name |-> cur'.item.name,
                             args |-> json_loads(cur'.item.arguments)])
               ELSE UNCHANGED <<cur, executed>>
            /\ to_client' = to_client \o Tagged(at, c.wrote)
            /\ adapter_closed' = c.closed
            /\ s2c' = IF c.exc # "none" THEN "failed" ELSE IF h.tool THEN "tool" ELSE "read"
            /\ first_exc' = IF c.exc = "none" THEN first_exc ELSE Failed(c.exc)
    /\ UNCHANGED <<config, ext, headers, fwd, target_ws, c2s, client_sock, from_client>>

\* fault: the handler returns without having sent the function_call_output
S2CToolReturnsUnsent ==
    /\ s2c = "tool"
    /\ cur' = NoneMsg
    /\ s2c' = "read"
    /\ UNCHANGED <<config, ext, headers, fwd, target_ws, c2s, first_exc, tools_pending,
                   adapter_closed, client_sock, logs>>

\* the executor returns: send function_call_output, message = None
S2CToolReturns ==
    /\ s2c = "tool"
    /\ cur' = NoneMsg
    /\ IF target_ws = "open"
       THEN /\ to_model' = Append(to_model,
                    [by |-> "s2c", at |-> cur.at, tool |-> FALSE,
                     data |-> json_dumps(FunctionCallOutput(cur.item,
                                  ToolResult(cur.item.name,
                                             json_loads(cur.item.arguments))))])
            /\ s2c' = "read"
            /\ UNCHANGED first_exc
       ELSE /\ s2c' = "failed" /\ first_exc' = Failed("ConnectionResetError")
            /\ UNCHANGED to_model
    /\ UNCHANGED <<config, ext, headers, fwd, target_ws, c2s, tools_pending,
                   adapter_closed, client_sock, from_client, from_model, to_client,
                   executed>>

\* fault: the executor's exception is caught and the loop reads on
S2CToolRaisesCaught ==
    /\ s2c = "tool"
    /\ cur' = NoneMsg
    /\ s2c' = "read" /\ first_exc' = Failed("ToolError")
    /\ UNCHANGED <<config, ext, headers, fwd, target_ws, c2s, tools_pending,
                   adapter_closed, client_sock, logs>>

\* the executor raises
S2CToolRaises ==
    /\ s2c = "tool"
    /\ cur' = NoneMsg
    /\ s2c' = "failed" /\ first_exc' = Failed("ToolError")
    /\ UNCHANGED <<config, ext, headers, fwd, target_ws, c2s, tools_pending,
                   adapter_closed, client_sock, logs>>

\* "async for msg in target_ws" ends when the connection is closing or closed
S2CEnd ==
    /\ s2c = "read" /\ target_ws # "open"
    /\ s2c' = "done"
    /\ UNCHANGED <<config, ext, headers, fwd, target_ws, c2s, first_exc, tools_pending,
                   cur, adapter_closed, client_sock, logs>>

\* ----------------------------------------------------------- environment
\* the client hangs up or its connection drops
ClientDrop ==
    /\ fwd # "init" /\ client_sock = "open"
    /\ client_sock' = "gone"
    /\ UNCHANGED <<config, ext, headers, fwd, target_ws, c2s, s2c, first_exc,
                   tools_pending, cur, adapter_closed, logs>>

\* the model endpoint closes or resets the connection
ModelClose ==
    /\ target_ws = "open"
    /\ target_ws' = "closing"
    /\ UNCHANGED <<config, ext, headers, fwd, c2s, s2c, first_exc, tools_pending, cur,
                   adapter_closed, client_sock, logs>>

Next ==
    \/ Connect
    \/ Join
    \/ C2SFrame(ClientFrames)
    \/ C2SOtherEvent
    \/ C2SDisconnect
    \/ C2SReceiveError
    \/ S2CFrame(ModelFrames)
    \/ S2CToolReturns
    \/ S2CToolRaises
    \/ S2CEnd
    \/ ClientDrop
    \/ ModelClose

Spec == Init /\ [][Next]_vars

TypeOK ==
    /\ fwd \in {"init", "running", "returned", "raised"}
    /\ target_ws \in {"none", "open", "closing", "closed"}
    /\ c2s \in {"idle", "read", "done", "failed"}
    /\ s2c \in {"idle", "read", "tool", "done", "failed"}
    /\ nread <= MaxFrames

\* ------------------------------------------------------ reading the logs
\* the frame is a text frame that decodes
Decodes(f) == f.type = "TEXT" /\ IsJson(f.data)
Malformed(f) == f.type = "TEXT" /\ ~IsJson(f.data)
Typed(f, type) ==
    Decodes(f) /\ Has(json_loads(f.data), "type") /\ json_loads(f.data).type = type

\* the model announces a function call / reports it complete
Announces(f) ==
    Typed(f, "conversation.item.added") /\ IsFunctionCallItem(json_loads(f.data))
Completes(f) ==
    Typed(f, "response.output_item.done") /\ IsFunctionCallItem(json_loads(f.data))
ItemOf(f) == json_loads(f.data).item

Indices(log, P(_)) == {i \in 1..Len(log) : P(log[i])}
StrictlyIncreasing(log) == \A i \in 1..(Len(log) - 1) : log[i].at < log[i+1].at
SentBy(loop) == SelectSeq(to_model, LAMBDA e : e.by = loop)
\* what a step appended to a log
Appended(old, new) == SubSeq(new, Len(old) + 1, Len(new))

\* the handler is through with the k-th model frame
Handled(k) == k < Len(from_model) \/ s2c \in {"read", "done"}

\* the k-th model frame completes a call that the j-th announced, with no
\* response.done in between, for a registered tool and arguments that parse
CallFlow(j, k) ==
    /\ j < k
    /\ Announces(from_model[j]) /\ Completes(from_model[k])
    /\ ItemOf(from_model[j]).call_id = ItemOf(from_model[k]).call_id
    /\ ItemOf(from_model[j]).name = ItemOf(from_model[k]).name
    /\ ItemOf(from_model[k]).name \in tools
    /\ IsJson(ItemOf(from_model[k]).arguments)
    /\ \A l \in (j+1)..(k-1) : ~Typed(from_model[l], "response.done")

\* C1: when the model announces a function call of a registered tool through
\* conversation.item.added and then reports it complete through
\* response.output_item.done, the executor is invoked exactly once, with the
\* parsed arguments; once the handler is through with the completion exactly
\* one message was sent to the model for it, the function_call_output with the
\* same call_id (and none before the executor has returned); and neither of
\* the two messages is written to the client, on either route.
C1_FunctionCallFlow ==
    \A j, k \in 1..Len(from_model) :
        CallFlow(j, k) =>
            LET item == ItemOf(from_model[k])
                runs == Indices(executed, LAMBDA e : e.at = k)
                outs == Indices(to_model, LAMBDA e : e.by = "s2c" /\ e.at = k)
            IN  /\ Cardinality(runs) = 1
                /\ \A r \in runs :
                       /\ executed[r].name = item.name
                       /\ executed[r].args = json_loads(item.arguments)
                /\ Cardinality(outs) = IF Handled(k) THEN 1 ELSE 0
                /\ \A o \in outs :
                       LET sent == json_loads(to_model[o].data)
                       IN  /\ sent.type = "conversation.item.create"
                           /\ sent.item.type = "function_call_output"
                           /\ sent.item.call_id = item.call_id
                /\ Indices(to_client, LAMBDA e : e.at \in {j, k}) = {}

C1_Witness ==
    /\ Len(from_model) >= 2 /\ CallFlow(1, 2) /\ Handled(2)
    /\ \E o \in 1..Len(to_model) : to_model[o].by = "s2c" /\ to_model[o].at = 2
    /\ Len(executed) = 1

\* C2: every session.update the client->model loop sends to the model carries
\* the configured system_message as instructions, the schemas of the
\* registered tools, tool_choice "auto" exactly when the registry is
\* non-empty (else "none") and type "realtime", whatever the client supplied.
C2_SessionUpdateEnforced ==
    \A i \in 1..Len(to_model) :
        LET sent == json_loads(to_model[i].data)
        IN  (to_model[i].by = "c2s" /\ sent.type = "session.update") =>
                /\ sent.session.instructions = system_message
                /\ sent.session.tools = SchemasOf(tools)
                /\ sent.session.tool_choice = (IF tools # {} THEN "auto" ELSE "none")
                /\ sent.session.type = "realtime"

\* the client asked for its own instructions and tools, and a session.update
\* went to the model
C2_Witness ==
    /\ ~is_acs_audio_stream
    /\ \E i \in 1..Len(from_client) :
           /\ Typed(from_client[i], "session.update")
           /\ json_loads(from_client[i].data).session.instructions = "leak"
           /\ \E o \in 1..Len(to_model) :
                  /\ to_model[o].by = "c2s" /\ to_model[o].at = i
                  /\ json_loads(to_model[o].data).type = "session.update"

\* the message types the handler rewrites before forwarding
Rewritten == {"session.created", "response.done"}

\* C3: what the model->client loop writes to the client is, in order and
\* without repetition, derived from text frames it read from the model, and
\* what the client->model loop sends to the model is, in order and without
\* repetition, derived from text frames it read from the client; on the
\* native route a text that is not rewritten is the frame's own text.
C3_OrderPreserved ==
    /\ StrictlyIncreasing(to_client)
    /\ StrictlyIncreasing(SentBy("c2s"))
    /\ \A i \in 1..Len(to_client) :
           LET e == to_client[i]
           IN  /\ e.at \in 1..Len(from_model)
               /\ Decodes(from_model[e.at])
               /\ (~is_acs_audio_stream /\ json_loads(e.data).type \notin Rewritten)
                      => e.data = from_model[e.at].data
    /\ \A i \in 1..Len(SentBy("c2s")) :
           LET e == SentBy("c2s")[i]
           IN  /\ e.at \in 1..Len(from_client)
               /\ Decodes(from_client[e.at])
               /\ (~is_acs_audio_stream /\ json_loads(e.data).type # "session.update")
                      => e.data = from_client[e.at].data

\* two frames went through in each direction
C3_Witness ==
    /\ Len(to_client) = 2 /\ to_client[1].at = 1 /\ to_client[2].at = 2
    /\ Len(SentBy("c2s")) = 1

\* an audio frame as the route's client sends it, and the message the model
\* is to receive for it
IsAudio(f) ==
    /\ Decodes(f)
    /\ IF is_acs_audio_stream
       THEN Has(json_loads(f.data), "kind") /\ json_loads(f.data).kind = "AudioData"
       ELSE Typed(f, "input_audio_buffer.append")
AudioOf(f) ==
    IF is_acs_audio_stream THEN json_loads(f.data).audioData.data
    ELSE json_loads(f.data).audio

\* C4: while the model->client loop awaits a tool executor the client->model
\* loop can still read; an audio frame it reads then is sent to the model in
\* that very step as input_audio_buffer.append with the same payload (while
\* the model connection is open); and until the executor has returned the
\* model->client loop reads no model frame, writes nothing to the client and
\* leaves the tracker alone, and it resumes reading only by sending the
\* function_call_output.
C4_ToolBlocksOnlyModelLoop ==
    /\ [](s2c = "tool" /\ c2s = "read" /\ client_sock = "open" /\ nread < MaxFrames
            => ENABLED C2SFrame(ClientFrames))
    /\ [][s2c = "tool" =>
            /\ from_model' = from_model
            /\ to_client' = to_client
            /\ tools_pending' = tools_pending
            /\ (s2c' = "read" =>
                    /\ Len(to_model') = Len(to_model) + 1
                    /\ to_model'[Len(to_model')].by = "s2c"
                    /\ json_loads(to_model'[Len(to_model')].data).item.type
                           = "function_call_output")
            /\ (from_client' # from_client /\ IsAudio(from_client'[Len(from_client')])
                  /\ target_ws = "open") =>
                    /\ c2s' = "read"
                    /\ Appended(to_model, to_model') =
                         << [by |-> "c2s", at |-> Len(from_client'), tool |-> TRUE,
                             data |-> json_dumps(
                                 [type |-> "input_audio_buffer.append",
                                  audio |-> AudioOf(from_client'[Len(from_client')])])] >>
       ]_vars

\* an audio frame was read and sent on while the executor was awaited
C4_Witness ==
    /\ s2c = "tool"
    /\ \E o \in 1..Len(to_model) :
           /\ to_model[o].by = "c2s" /\ to_model[o].tool
           /\ IsAudio(from_client[to_model[o].at])

Ended == {"done", "failed"}

\* C5 (as claimed): once either loop has ended, forward is never left waiting
\* for input from the other side: the join can complete at once, or the
\* relay can take a step of its own (the awaited executor returns, or the
\* other loop sees its stream closed) that leads there.
C5_JoinCompletesWhenEitherLoopEnds ==
    (fwd = "running" /\ (c2s \in Ended \/ s2c \in Ended)) =>
        \/ ENABLED Join
        \/ ENABLED S2CToolReturns
        \/ ENABLED S2CEnd
        \/ ENABLED C2SDisconnect

\* C6: whenever forward_messages has opened the model-side connection and has
\* returned or raised, that connection is closed.
C6_ConnectionClosedOnExit ==
    (fwd \in {"returned", "raised"} /\ headers # EmptyDict) => target_ws = "closed"

\* forward_messages raised out of a running session
C6_Witness ==
    fwd = "raised" /\ first_exc = "KeyError" /\ target_ws = "closed"

\* C7: handling response.done empties the tracker, and sends exactly one
\* response.create to the model if the tracker was non-empty and nothing if
\* it was empty.
C7_ResponseDone ==
    [][(from_model' # from_model /\ Typed(from_model'[Len(from_model')], "response.done"))
         => /\ tools_pending' = {}
            /\ Appended(to_model, to_model') =
                 IF tools_pending # {}
                 THEN << [by |-> "s2c", at |-> Len(from_model'), tool |-> FALSE,
                          data |-> json_dumps([type |-> "response.create"])] >>
                 ELSE <<>>
      ]_vars

\* c1 was announced and executed, and the response.done that followed
\* cleared it and asked for a new response
C7_Witness ==
    /\ Len(from_model) = 3 /\ CallFlow(1, 2) /\ Typed(from_model[3], "response.done")
    /\ tools_pending = {}
    /\ Len(to_model) = 2
    /\ json_loads(to_model[1].data).type = "conversation.item.create"
    /\ json_loads(to_model[2].data).type = "response.create"

\* C8: for a model message whose type the handler has no case for, the
\* handler does not raise, leaves the tracker alone and sends nothing to the
\* model; on the native route the text written to the client, whenever the
\* adapter writes, is that message.
C8_UnrecognisedPassThrough ==
    [][(/\ from_model' # from_model
        /\ Decodes(from_model'[Len(from_model')])
        /\ Has(json_loads(from_model'[Len(from_model')].data), "type")
        /\ json_loads(from_model'[Len(from_model')].data).type \notin RecognisedTypes)
         => /\ tools_pending' = tools_pending
            /\ to_model' = to_model
            /\ executed' = executed
            /\ s2c' = "failed" => (adapter_kind = "base" /\ client_sock = "gone")
            /\ (~is_acs_audio_stream /\ ~adapter_closed /\ client_sock = "open") =>
                   Appended(to_client, to_client') =
                       << [at |-> Len(from_model'),
                           data |-> from_model'[Len(from_model')].data] >>
      ]_vars

\* an unrecognised message reached the native client
C8_Witness ==
    /\ ~is_acs_audio_stream
    /\ \E i \in 1..Len(to_client) :
           /\ json_loads(to_client[i].data).type \notin RecognisedTypes
           /\ to_client[i].data = from_model[to_client[i].at].data

\* C9 (as claimed): a text frame that is not valid JSON does not end the loop
\* that read it, and no exception for it leaves forward_messages.
C9_MalformedJsonDropped ==
    /\ \A k \in 1..Len(from_client) :
           Malformed(from_client[k]) => (k < Len(from_client) \/ c2s # "failed")
    /\ \A k \in 1..Len(from_model) :
           Malformed(from_model[k]) => (k < Len(from_model) \/ s2c # "failed")
    /\ (fwd = "raised" /\ first_exc = "ValueError") => headers = EmptyDict

\* C10 (as claimed): forward_messages raises only when no credential is
\* configured.
C10_RaisesOnlyOnConfigError ==
    fwd = "raised" => (key = Null /\ token_provider = Null)

\* ------------------------------------------- the telephony audio relay
\* forward_messages relaying audio only: no function call is ever announced,
\* so no executor is awaited; either kind of credential, or none, is set.
\* opaque audio payloads (base64 text), the empty one included
Payloads == <<"QUJD", "">>

AudioData(X) == [kind |-> "AudioData", audioData |-> [data |-> X]]
\* as the telephony platform sends it, with the fields the relay ignores
AudioDataFull(X) ==
    [kind |-> "AudioData",
     audioData |-> [data |-> X, timestamp |-> "t0", silent |-> "false"]]
InputAudioBufferAppend(X) == [type |-> "input_audio_buffer.append", audio |-> X]
OutputAudioDelta(X) == [type |-> "response.output_audio.delta", delta |-> X]
AudioDelta(X) == [type |-> "response.audio.delta", delta |-> X]
SpeechStarted == [type |-> "input_audio_buffer.speech_started"]
StopAudio == [kind |-> "StopAudio", audioData |-> Null, stopAudio |-> EmptyDict]

AudioClientMsgs ==
    [i \in 1..Len(Payloads) |-> AudioData(Payloads[i])] \o <<AudioDataFull("QUJD")>>
AudioModelMsgs ==
    [i \in 1..Len(Payloads) |-> OutputAudioDelta(Payloads[i])]
    \o [i \in 1..Len(Payloads) |-> AudioDelta(Payloads[i])]
    \o <<SpeechStarted>>

AudioClientFrames ==
    [i \in 1..Len(AudioClientMsgs) |-> TextFrame(json_dumps(AudioClientMsgs[i]))]
    \o <<BinaryFrame>>
AudioModelFrames ==
    [i \in 1..Len(AudioModelMsgs) |-> TextFrame(json_dumps(AudioModelMsgs[i]))]
    \o <<BinaryFrame>>

InitAudio ==
    /\ closers = NoClose /\ close_frames = 0 /\ peer = NoPeer
    /\ response_output = <<>> /\ twins = NoTwins /\ loaded = AsLoaded
    /\ overrides = NoOverrides
    /\ adapter_kind \in {"backend_acs", "base"}
    /\ is_acs_audio_stream = TRUE
    /\ \E cred \in {<<"k", Null>>, <<Null, "tok">>, <<Null, Null>>} :
          key = cred[1] /\ token_provider = cred[2]
    /\ tools = {KnownTool}
    /\ system_message = "SYS"
    /\ headers = EmptyDict
    /\ fwd = "init"
    /\ target_ws = "none"
    /\ c2s = "idle"
    /\ s2c = "idle"
    /\ first_exc = "none"
    /\ tools_pending = {}
    /\ cur = NoneMsg
    /\ adapter_closed = FALSE
    /\ client_sock = "open"
    /\ from_client = <<>>
    /\ from_model = <<>>
    /\ to_model = <<>>
    /\ to_client = <<>>
    /\ executed = <<>>

NextAudio ==
    \/ Connect
    \/ Join
    \/ C2SFrame(AudioClientFrames)
    \/ C2SOtherEvent
    \/ C2SDisconnect
    \/ C2SReceiveError
    \/ S2CFrame(AudioModelFrames)
    \/ S2CEnd
    \/ ClientDrop
    \/ ModelClose

SpecAudio == InitAudio /\ [][NextAudio]_vars

\* the last frame a loop read, and what it decodes to
Last(log) == log[Len(log)]
Msg(f) == json_loads(f.data)
\* a step of from_client_to_server / from_server_to_client that read a frame
ReadsClient == Len(from_client') = Len(from_client) + 1
ReadsModel == Len(from_model') = Len(from_model) + 1
\* the client adapter can deliver
ClientReachable == ~adapter_closed /\ client_sock = "open"

\* C11: when neither a static key nor a token provider is set, forward_messages
\* raises ValueError with the model connection never opened, no loop started,
\* and nothing read or sent; once past the auth step with a static key the
\* headers are exactly the api-key header with that key, and with only a token
\* provider exactly the Authorization header with "Bearer " and its token.
C11_AuthOrConfigError ==
    fwd # "init" =>
        /\ (key = Null /\ token_provider = Null) =>
              /\ fwd = "raised" /\ first_exc = "ValueError"
              /\ target_ws = "none" /\ headers = EmptyDict
              /\ c2s = "idle" /\ s2c = "idle"
              /\ logs = << <<>>, <<>>, <<>>, <<>>, <<>> >>
        /\ key # Null => headers = [api_key |-> key]
        /\ (key = Null /\ token_provider # Null) =>
              headers = [Authorization |-> "Bearer " \o token_provider]

\* forward_messages has raised for want of a credential
C11_Witness ==
    key = Null /\ token_provider = Null /\ fwd = "raised" /\ first_exc = "ValueError"

\* the session configurations transform_acs_to_openai_format may be given
\* (the three optional overrides unset, or one of them set)
SessionConfigs ==
    { [reg |-> r, system_message |-> m, temperature |-> o[1], max_tokens |-> o[2],
       disable_audio |-> o[3], use_voicelive |-> v] :
      r \in {{}, {KnownTool}}, m \in {Null, "SYS"}, v \in BOOLEAN,
      o \in {<<Null, Null, Null>>, <<"0.8", Null, Null>>,
             <<Null, "4096", Null>>, <<Null, Null, "true">>} }

\* the transform on every payload, under every session configuration
AudioDataTransformsToAppend ==
    \A i \in 1..Len(Payloads) : \A sc \in SessionConfigs :
        transform_acs_to_openai_format(AudioData(Payloads[i]), sc.reg,
            sc.system_message, sc.temperature, sc.max_tokens,
            sc.disable_audio, sc.use_voicelive)
        = InputAudioBufferAppend(Payloads[i])

\* C12: for every payload X and every session configuration,
\* transform_acs_to_openai_format of {kind: AudioData, audioData: {data: X}}
\* is exactly {type: input_audio_buffer.append, audio: X}; and on the telephony
\* route a step that reads such a frame while the model connection is open
\* sends exactly that one message to the model.
C12_AudioDataToAppend ==
    /\ []AudioDataTransformsToAppend
    /\ [][(/\ ReadsClient /\ is_acs_audio_stream /\ target_ws = "open"
           /\ Decodes(Last(from_client')) /\ Has(Msg(Last(from_client')), "kind")
           /\ Msg(Last(from_client')).kind = "AudioData")
          => /\ Len(Appended(to_model, to_model')) = 1
             /\ Last(to_model').by = "c2s" /\ Last(to_model').at = Len(from_client')
             /\ Last(to_model').data =
                  json_dumps(InputAudioBufferAppend(
                      Msg(Last(from_client')).audioData.data))
             /\ c2s' = "read"]_vars

\* an empty payload went from the telephony client to the model
C12_Witness ==
    /\ is_acs_audio_stream
    /\ \E e \in 1..Len(to_model) :
          to_model[e].by = "c2s" /\ to_model[e].data = json_dumps(InputAudioBufferAppend(""))

\* the transform on both names of the audio delta, for every payload
BothDeltaNamesTransformAlike ==
    \A i \in 1..Len(Payloads) :
        /\ transform_openai_to_acs_format(OutputAudioDelta(Payloads[i]))
             = AudioData(Payloads[i])
        /\ transform_openai_to_acs_format(AudioDelta(Payloads[i]))
             = AudioData(Payloads[i])

\* C13: for every payload X, transform_openai_to_acs_format gives
\* {kind: AudioData, audioData: {data: X}} for response.output_audio.delta and
\* for response.audio.delta alike; and on the telephony route a step that
\* reads either, with the client reachable, writes exactly that text to it.
C13_BothDeltaNames ==
    /\ []BothDeltaNamesTransformAlike
    /\ [][(/\ ReadsModel /\ is_acs_audio_stream /\ ClientReachable
           /\ \/ Typed(Last(from_model'), "response.output_audio.delta")
              \/ Typed(Last(from_model'), "response.audio.delta"))
          => /\ Appended(to_client, to_client')
                  = << [at |-> Len(from_model'),
                        data |-> json_dumps(AudioData(Msg(Last(from_model')).delta))] >>
             /\ s2c' = "read"]_vars

\* the same payload arrived under both names and was written twice, alike
C13_Witness ==
    /\ is_acs_audio_stream /\ Len(from_model) = 2 /\ Len(to_client) = 2
    /\ Typed(from_model[1], "response.audio.delta")
    /\ Typed(from_model[2], "response.output_audio.delta")
    /\ to_client[1].data = to_client[2].data

\* C14: transform_openai_to_acs_format of input_audio_buffer.speech_started is
\* {kind: StopAudio, audioData: null, stopAudio: {}}; on the telephony route a
\* step that reads it, with the client reachable, writes exactly that one text
\* to the client; and what is written to the client follows the order of the
\* model's frames.
C14_SpeechStartedToStopAudio ==
    /\ [](/\ transform_openai_to_acs_format(SpeechStarted) = StopAudio
          /\ StrictlyIncreasing(to_client))
    /\ [][(/\ ReadsModel /\ is_acs_audio_stream /\ ClientReachable
           /\ Typed(Last(from_model'), "input_audio_buffer.speech_started"))
          => /\ Appended(to_client, to_client')
                  = << [at |-> Len(from_model'), data |-> json_dumps(StopAudio)] >>
             /\ s2c' = "read"]_vars

\* audio, a barge-in, audio again: the client got the three in that order
C14_Witness ==
    /\ is_acs_audio_stream /\ Len(to_client) = 3
    /\ to_client[1] = [at |-> 1, data |-> json_dumps(AudioData("QUJD"))]
    /\ to_client[2] = [at |-> 2, data |-> json_dumps(StopAudio)]
    /\ to_client[3] = [at |-> 3, data |-> json_dumps(AudioData(""))]

\* ------------------------------------------------- the adapter's close()
\* close(code, reason) on the adapter wrapping the client's socket, called by
\* up to MaxClosers callers at a time while forward_messages runs.
\* acs/bridges/base.py: "if not self._closed: self._closed = True; await
\* self.websocket.close(...)"; the class of backend_acs.py defines no close.
CloseCall(c) ==
    /\ fwd = "running" /\ closers[c] = "idle"
    /\ IF adapter_kind = "backend_acs"
       THEN /\ closers' = [closers EXCEPT ![c] = "raised"]     \* AttributeError
            /\ UNCHANGED adapter_closed
       ELSE IF adapter_closed
       THEN /\ closers' = [closers EXCEPT ![c] = "returned"]
            /\ UNCHANGED adapter_closed
       ELSE /\ closers' = [closers EXCEPT ![c] = "awaiting"]
            /\ adapter_closed' = TRUE
    /\ UNCHANGED <<config, headers, fwd, target_ws, c2s, s2c, first_exc, tools_pending,
                   cur, client_sock, logs, close_frames, peer,
                   response_output, overrides, twins, loaded>>

\* the awaited websocket.close() on a socket that is still open sends the
\* close frame
CloseSends(c) ==
    /\ closers[c] = "awaiting" /\ client_sock = "open"
    /\ close_frames' = close_frames + 1
    /\ client_sock' = "closed"
    /\ closers' = [closers EXCEPT ![c] = "returned"]
    /\ UNCHANGED <<config, headers, fwd, target_ws, c2s, s2c, first_exc, tools_pending,
                   cur, adapter_closed, logs, peer,
                   response_output, overrides, twins, loaded>>

\* the awaited websocket.close() on a socket whose peer is gone: the server
\* underneath either drops the close frame or raises
CloseOnGone(c) ==
    /\ closers[c] = "awaiting" /\ client_sock = "gone"
    /\ \/ closers' = [closers EXCEPT ![c] = "returned"]
       \/ closers' = [closers EXCEPT ![c] = "raised"]
    /\ UNCHANGED <<config, headers, fwd, target_ws, c2s, s2c, first_exc, tools_pending,
                   cur, adapter_closed, client_sock, logs, close_frames, peer,
                   response_output, overrides, twins, loaded>>

\* the caller is free to call close() once more
CloseAgain(c) ==
    /\ closers[c] = "returned"
    /\ closers' = [closers EXCEPT ![c] = "idle"]
    /\ UNCHANGED <<config, headers, fwd, target_ws, c2s, s2c, first_exc, tools_pending,
                   cur, adapter_closed, client_sock, logs, close_frames, peer,
                   response_output, overrides, twins, loaded>>

InitClose ==
    /\ closers = NoClose /\ close_frames = 0 /\ peer = NoPeer
    /\ response_output = <<>> /\ twins = NoTwins /\ loaded = AsLoaded
    /\ overrides = NoOverrides
    /\ adapter_kind \in {"backend_acs", "base"}
    /\ is_acs_audio_stream = TRUE
    /\ key = "k" /\ token_provider = Null
    /\ tools = {KnownTool}
    /\ system_message = "SYS"
    /\ headers = EmptyDict
    /\ fwd = "init"
    /\ target_ws = "none"
    /\ c2s = "idle"
    /\ s2c = "idle"
    /\ first_exc = "none"
    /\ tools_pending = {}
    /\ cur = NoneMsg
    /\ adapter_closed = FALSE
    /\ client_sock = "open"
    /\ from_client = <<>>
    /\ from_model = <<>>
    /\ to_model = <<>>
    /\ to_client = <<>>
    /\ executed = <<>>

NextClose ==
    \/ Connect
    \/ C2SFrame(AudioClientFrames)
    \/ C2SDisconnect
    \/ C2SReceiveError
    \/ ClientDrop
    \/ \E c \in Closers : CloseCall(c)
    \/ \E c \in Closers : CloseSends(c)
    \/ \E c \in Closers : CloseOnGone(c)
    \/ \E c \in Closers : CloseAgain(c)

SpecClose == InitClose /\ [][NextClose]_vars

\* C15 (as claimed): with either adapter, whatever the sequence of close()
\* calls, none of them raises and at most one close frame is written to the
\* client's socket.
C15_CloseIdempotent ==
    /\ \A c \in Closers : closers[c] # "raised"
    /\ close_frames <= 1

\* ------------------------------------- two connections, one RTMiddleTier
\* acs_bridge_handler hands every connection to the module-level rtmt, and
\* _tools_pending and tools are class attributes that no instance rebinds:
\* a second forward_messages run reads and writes the same tools_pending.
\* The second run is the variable peer; its client and its model connection
\* are its own, and stay open.
\* the most frames the second run reads
MaxPeerFrames == 2

PeerConnect ==
    /\ peer.fwd = "init" /\ fwd = "running"
    /\ key # Null \/ token_provider # Null
    /\ peer' = [peer EXCEPT !.fwd = "running", !.s2c = "read"]
    /\ UNCHANGED <<config, headers, fwd, target_ws, c2s, s2c, first_exc, tools_pending,
                   cur, adapter_closed, client_sock, logs, closers, close_frames,
                   response_output, overrides, twins, loaded>>

\* from_server_to_client of the second run, on a frame of its own model
PeerS2CFrame(frames) ==
    /\ peer.s2c = "read" /\ Len(peer.from_model) < MaxPeerFrames
    /\ \E i \in 1..Len(frames) :
        LET msg == frames[i]
            at == Len(peer.from_model) + 1
            text == msg.type = "TEXT"
            h == IF text /\ IsJson(msg.data)
                 THEN Handle(json_loads(msg.data), tools_pending, tools)
                 ELSE IF text THEN Raises("ValueError", tools_pending)
                 ELSE Consume(tools_pending)
            out == IF is_acs_audio_stream /\ ~IsNone(h.out)
                   THEN transform_openai_to_acs_format(h.out) ELSE h.out
            c == IF h.exc = "none" /\ ~h.tool /\ ~IsNone(out)
                 THEN send_str(adapter_kind, FALSE, "open", json_dumps(out))
                 ELSE SendResult(h.exc, FALSE, <<>>)
        IN  /\ tools_pending' = h.pending
            /\ peer' = [peer EXCEPT
                  !.from_model = Append(@, msg),
                  !.to_model = IF IsNone(h.send) THEN @
                               ELSE Append(@, [by |-> "s2c", at |-> at, tool |-> FALSE,
                                               data |-> json_dumps(h.send)]),
                  !.to_client = @ \o Tagged(at, c.wrote),
                  !.s2c = IF c.exc # "none" THEN "failed"
                          ELSE IF h.tool THEN "tool" ELSE "read",
                  !.exc = c.exc]
    /\ UNCHANGED <<config, headers, fwd, target_ws, c2s, s2c, first_exc, cur,
                   adapter_closed, client_sock, logs, closers, close_frames,
                   response_output, overrides, twins, loaded>>

\* what the first run's model sends: a call announced, completed, the turn done
SharedModelFrames == <<
    TextFrame(json_dumps([type |-> "conversation.item.added", previous_item_id |-> "i0",
                          item |-> FunctionCall("c1", KnownTool, GoodArgs)])),
    TextFrame(json_dumps([type |-> "response.output_item.done",
                          item |-> FunctionCall("c1", KnownTool, GoodArgs)])),
    TextFrame(json_dumps([type |-> "response.done",
                          response |-> [output |-> <<MessageItem>>]])) >>

\* what the second run's model sends: a call of its own announced, a turn done
PeerModelFrames == <<
    TextFrame(json_dumps([type |-> "conversation.item.added", previous_item_id |-> "i0",
                          item |-> FunctionCall("c2", KnownTool, GoodArgs)])),
    TextFrame(json_dumps([type |-> "response.done",
                          response |-> [output |-> <<MessageItem>>]])),
    TextFrame(json_dumps(OutputAudioDelta("QUJD"))) >>

InitShared ==
    /\ closers = NoClose /\ close_frames = 0 /\ peer = NoPeer
    /\ response_output = <<>> /\ twins = NoTwins /\ loaded = AsLoaded
    /\ overrides = NoOverrides
    /\ adapter_kind \in {"backend_acs", "base"}
    /\ is_acs_audio_stream = TRUE
    /\ key = "k" /\ token_provider = Null
    /\ tools = {KnownTool}
    /\ system_message = "SYS"
    /\ headers = EmptyDict
    /\ fwd = "init"
    /\ target_ws = "none"
    /\ c2s = "idle"
    /\ s2c = "idle"
    /\ first_exc = "none"
    /\ tools_pending = {}
    /\ cur = NoneMsg
    /\ adapter_closed = FALSE
    /\ client_sock = "open"
    /\ from_client = <<>>
    /\ from_model = <<>>
    /\ to_model = <<>>
    /\ to_client = <<>>
    /\ executed = <<>>

NextShared ==
    \/ Connect
    \/ S2CFrame(SharedModelFrames)
    \/ S2CToolReturns
    \/ S2CToolRaises
    \/ PeerConnect
    \/ PeerS2CFrame(PeerModelFrames)

SpecShared == InitShared /\ [][NextShared]_vars

\* the call the j-th frame of the first run announced is still outstanding:
\* that run has read no response.done since
Outstanding(j) ==
    /\ Announces(from_model[j])
    /\ \A l \in (j+1)..Len(from_model) : ~Typed(from_model[l], "response.done")

\* C16 (as claimed): with two runs forwarding at once, a call the first run's
\* model announced stays in the first run's tracker until that run reads a
\* response.done; the second run sends response.create to its model only when
\* a call was announced, or a session.updated received, on its own connection;
\* and the first run's response.output_item.done for the announced call does
\* not fail on the lookup of its pending call.
C16_TrackerPerSession ==
    /\ \A j \in 1..Len(from_model) :
          Outstanding(j) => InPending(tools_pending, ItemOf(from_model[j]).call_id)
    /\ (\E e \in 1..Len(peer.to_model) :
            peer.to_model[e].data = json_dumps(ResponseCreate))
          => \E l \in 1..Len(peer.from_model) :
                \/ Announces(peer.from_model[l])
                \/ Typed(peer.from_model[l], "session.updated")
    /\ \A j, k \in 1..Len(from_model) :
          (CallFlow(j, k) /\ k = Len(from_model)) => first_exc # "KeyError"

\* ------------------------------------------- failures and teardown (Spec)
\* C17 (as claimed): a frame that is not a text frame does not end the loop
\* that read it, with either adapter on the client side, and nothing is sent
\* to the model for it.
C17_NonTextIgnored ==
    /\ \A k \in 1..Len(from_client) :
          from_client[k].type # "TEXT" =>
             /\ k < Len(from_client) \/ c2s # "failed"
             /\ \A e \in 1..Len(to_model) :
                   ~(to_model[e].by = "c2s" /\ to_model[e].at = k)
    /\ \A k \in 1..Len(from_model) :
          from_model[k].type # "TEXT" =>
             /\ k < Len(from_model) \/ s2c # "failed"
             /\ \A e \in 1..Len(to_client) : to_client[e].at # k

\* exceptions that stand for the transport going away
TransportErrors == {"WebSocketDisconnect", "ConnectionResetError"}

\* C18 (as claimed): when the first exception a loop raised is a transport
\* disconnect or a connection reset, forward_messages does not raise.
C18_DisconnectIsNormalTeardown ==
    first_exc \in TransportErrors => fwd # "raised"

\* the model's k-th frame is an audio delta, which the handler passes to the
\* client on either route, and nothing was written to the client for it
SendLost(k) ==
    /\ Typed(from_model[k], "response.output_audio.delta")
    /\ Handled(k)
    /\ \A e \in 1..Len(to_client) : to_client[e].at # k

\* C19 (as claimed): while the client->model loop has seen neither a disconnect
\* nor an error, a send toward the client that failed is the last thing the
\* model->client loop did: it has read no further frame from the model.
C19_FailedSendEndsSession ==
    c2s = "read" => \A k \in 1..Len(from_model) : SendLost(k) => k = Len(from_model)

\* C20 (as claimed): once forward_messages has returned or raised, neither loop
\* reads a further frame, invokes an executor, or sends a message.
C20_LoopsStopTogether ==
    [][(fwd \in {"returned", "raised"}) => logs' = logs]_vars

\* ------------------------------------------ function-call scaffolding
\* the messages the model sends around a function call, and the turn's end
CallMsgs == <<
    [type |-> "response.output_item.added",
     item |-> FunctionCall("c1", KnownTool, GoodArgs)],
    [type |-> "conversation.item.added", previous_item_id |-> "i0",
     item |-> FunctionCall("c1", KnownTool, GoodArgs)],
    [type |-> "conversation.item.added", previous_item_id |-> "i9",
     item |-> FunctionCall("c1", KnownTool, GoodArgs)],
    [type |-> "conversation.item.added", previous_item_id |-> "i1",
     item |-> [type |-> "function_call_output", call_id |-> "c1"]],
    [type |-> "response.function_call_arguments.delta", delta |-> "{"],
    [type |-> "response.function_call_arguments.done", arguments |-> GoodArgs],
    [type |-> "response.output_item.done",
     item |-> FunctionCall("c1", KnownTool, GoodArgs)],
    [type |-> "response.done",
     response |-> [output |-> <<FunctionCall("c1", KnownTool, GoodArgs)>>]] >>

CallFrames == [i \in 1..Len(CallMsgs) |-> TextFrame(json_dumps(CallMsgs[i]))]

InitCalls ==
    /\ closers = NoClose /\ close_frames = 0 /\ peer = NoPeer
    /\ response_output = <<>> /\ twins = NoTwins /\ loaded = AsLoaded
    /\ overrides = NoOverrides
    /\ adapter_kind \in {"backend_acs", "base"}
    /\ is_acs_audio_stream \in BOOLEAN
    /\ key = "k" /\ token_provider = Null
    /\ tools \in {{KnownTool}, {}}
    /\ system_message = "SYS"
    /\ headers = EmptyDict
    /\ fwd = "init"
    /\ target_ws = "none"
    /\ c2s = "idle"
    /\ s2c = "idle"
    /\ first_exc = "none"
    /\ tools_pending = {}
    /\ cur = NoneMsg
    /\ adapter_closed = FALSE
    /\ client_sock = "open"
    /\ from_client = <<>>
    /\ from_model = <<>>
    /\ to_model = <<>>
    /\ to_client = <<>>
    /\ executed = <<>>

NextCalls ==
    \/ Connect
    \/ Join
    \/ C2SDisconnect
    \/ S2CFrame(CallFrames)
    \/ S2CToolReturns
    \/ S2CToolRaises
    \/ S2CEnd
    \/ ClientDrop
    \/ ModelClose

SpecCalls == InitCalls /\ [][NextCalls]_vars

\* the model announces a function call through response.output_item.added
AnnouncesByOutputItem(f) ==
    Typed(f, "response.output_item.added") /\ IsFunctionCallItem(json_loads(f.data))

\* the k-th model frame completes, for a registered tool, the call that the
\* j-th frame announced through response.output_item.added, no other frame
\* in between
OutputItemFlow(j, k) ==
    /\ k = j + 1
    /\ AnnouncesByOutputItem(from_model[j]) /\ Completes(from_model[k])
    /\ ItemOf(from_model[j]).call_id = ItemOf(from_model[k]).call_id
    /\ ItemOf(from_model[k]).name \in tools
    /\ IsJson(ItemOf(from_model[k]).arguments)

\* C21 (as claimed): a function call announced through
\* response.output_item.added and then completed through
\* response.output_item.done has its executor invoked on the completion, and
\* the announcing message is not written to the client.
C21_OutputItemAddedAnnounces ==
    \A j, k \in 1..Len(from_model) :
       OutputItemFlow(j, k) =>
          /\ \E e \in 1..Len(executed) : executed[e].at = k
          /\ \A e \in 1..Len(to_client) : to_client[e].at # j

\* the function_call_output for the k-th model frame has been sent
OutputSent(k) ==
    \E e \in 1..Len(to_model) :
       /\ to_model[e].by = "s2c" /\ to_model[e].at = k
       /\ Typed([type |-> "TEXT", data |-> to_model[e].data], "conversation.item.create")

\* C22 (as claimed): right after the handler is through with a
\* response.output_item.done whose function_call_output it has sent, the
\* call_id of that call is no longer in the tracker.
C22_RemovedWhenOutputSent ==
    \A k \in 1..Len(from_model) :
       (/\ k = Len(from_model) /\ s2c = "read"
        /\ Completes(from_model[k]) /\ OutputSent(k))
       => ~InPending(tools_pending, ItemOf(from_model[k]).call_id)

\* the frame a step read from the model announces a call that is pending
ReadsPendingAnnouncement ==
    /\ Len(from_model') = Len(from_model) + 1
    /\ Announces(Last(from_model'))
    /\ InPending(tools_pending, ItemOf(Last(from_model')).call_id)

\* C23: the tracker never holds two entries with the same call_id; and a step
\* that reads a conversation.item.added for a call_id that is already pending
\* leaves the tracker as it is (the entry keeps its previous_item_id), writes
\* nothing to the client, sends nothing to the model and goes on reading.
C23_OnePendingPerCallId ==
    /\ [](\A t1, t2 \in tools_pending : t1.call_id = t2.call_id => t1 = t2)
    /\ [][ReadsPendingAnnouncement =>
             (/\ tools_pending' = tools_pending
              /\ to_client' = to_client /\ to_model' = to_model
              /\ s2c' = "read")]_vars

\* two announcements of c1 with different previous_item_id were read, the
\* second just now, and the tracker holds the first one's entry
C23_Witness ==
    /\ Len(from_model) >= 2
    /\ \E j \in 1..(Len(from_model) - 1) :
          /\ Announces(from_model[j]) /\ Announces(Last(from_model))
          /\ json_loads(from_model[j].data).previous_item_id = "i0"
          /\ json_loads(Last(from_model).data).previous_item_id = "i9"
          /\ \A l \in j..Len(from_model) : ~Typed(from_model[l], "response.done")
    /\ tools_pending = {RTToolCall("c1", "i0")}
    /\ s2c = "read"

\* the call the k-th model frame completes was announced through
\* conversation.item.added since the last response.done
Announced(k) ==
    \E j \in 1..(k - 1) :
       /\ Announces(from_model[j])
       /\ ItemOf(from_model[j]).call_id = ItemOf(from_model[k]).call_id
       /\ \A l \in (j + 1)..(k - 1) : ~Typed(from_model[l], "response.done")

\* the lookups of the k-th model frame, a completion, cannot succeed
LookupFails(k) ==
    /\ Completes(from_model[k])
    /\ ~Announced(k) \/ ItemOf(from_model[k]).name \notin tools

\* nothing was done for the k-th model frame: no executor invoked, nothing
\* sent to the model, nothing written to the client
NothingDoneFor(k) ==
    /\ \A e \in 1..Len(executed) : executed[e].at # k
    /\ \A e \in 1..Len(to_model) : ~(to_model[e].by = "s2c" /\ to_model[e].at = k)
    /\ \A e \in 1..Len(to_client) : to_client[e].at # k

\* C24: a response.output_item.done for a function call whose call_id is not
\* pending, or whose tool name is not registered, invokes no executor, sends
\* no function_call_output and writes nothing to the client; it is the last
\* frame the model->client loop reads, the loop ends with KeyError, and
\* forward_messages does not return normally: it can only raise, and when it
\* has, the model connection is closed.
C24_FailedLookupFailsLoudly ==
    \A k \in 1..Len(from_model) :
       LookupFails(k) =>
          /\ NothingDoneFor(k)
          /\ k = Len(from_model)
          /\ s2c = "failed" /\ first_exc = "KeyError"
          /\ fwd \in {"running", "raised"}
          /\ fwd = "running" => ENABLED Join
          /\ fwd = "raised" => target_ws = "closed"

\* a pending call was completed under a tool name that is not registered,
\* and forward_messages has raised
C24_Witness ==
    /\ Len(from_model) >= 2
    /\ LookupFails(Len(from_model)) /\ Announced(Len(from_model))
    /\ tools_pending # {}
    /\ fwd = "raised"

\* C25: when the executor of a tool raises, the exception is the one the
\* model->client loop ends with: the completion that started the executor is
\* the last frame the loop read, nothing was sent to the model and nothing
\* written to the client for it (no function_call_output, of any shape),
\* and forward_messages does not return normally: it can only raise, and when
\* it has, the model connection is closed.
C25_ExecutorFailureEscapes ==
    first_exc = "ToolError" =>
       LET k == Len(from_model)
       IN  /\ k >= 1 /\ Completes(from_model[k])
           /\ \E e \in 1..Len(executed) : executed[e].at = k
           /\ \A e \in 1..Len(to_model) : to_model[e].at # k
           /\ \A e \in 1..Len(to_client) : to_client[e].at # k
           /\ s2c = "failed" /\ cur = NoneMsg
           /\ fwd \in {"running", "raised"}
           /\ fwd = "running" => ENABLED Join
           /\ fwd = "raised" => target_ws = "closed"

\* an executor was invoked and raised, and forward_messages has raised
C25_Witness ==
    /\ first_exc = "ToolError" /\ fwd = "raised"
    /\ executed # <<>> /\ to_model = <<>>

\* function-call scaffolding: argument fragments, the announcement of a
\* function call or of a function-call output, the completion of a call
Scaffolding(m) ==
    /\ Has(m, "type")
    /\ \/ m.type \in {"response.function_call_arguments.delta",
                      "response.function_call_arguments.done"}
       \/ /\ m.type \in {"conversation.item.added", "response.output_item.added",
                         "response.output_item.done"}
          /\ IsFunctionCallItem(m)
       \/ /\ m.type = "conversation.item.added"
          /\ Has(m, "item") /\ m.item.type = "function_call_output"

\* C26: on either route, no text written to the client is a scaffolding
\* message, and nothing at all is written to the client for a model frame
\* that carries one.
C26_ScaffoldingNeverForwarded ==
    /\ \A e \in 1..Len(to_client) : ~Scaffolding(json_loads(to_client[e].data))
    /\ \A k \in 1..Len(from_model) :
          (Decodes(from_model[k]) /\ Scaffolding(json_loads(from_model[k].data)))
          => \A e \in 1..Len(to_client) : to_client[e].at # k

\* three scaffolding messages of three different types were handled on the
\* native route with the client connected, and the loop reads on
C26_Witness ==
    /\ ~is_acs_audio_stream /\ client_sock = "open" /\ s2c = "read"
    /\ Len(from_model) = 3
    /\ \A k \in 1..3 : Scaffolding(json_loads(from_model[k].data))
    /\ \A j, k \in 1..3 :
          j # k => json_loads(from_model[j].data).type # json_loads(from_model[k].data).type
    /\ to_client = <<>>

\* ------------------------------------------------- response.done's filter
\* the longest response.output
MaxOutputs == 3

\* the items of a response: two function calls and two messages
OutputItems ==
    {FunctionCall("c1", KnownTool, GoodArgs), FunctionCall("c2", KnownTool, GoodArgs),
     MessageItem, [type |-> "message", id |-> "m2"]}

OutputLists == UNION {[1..n -> OutputItems] : n \in 0..MaxOutputs}

\* the response.done the model sends, with the response.output of this run
ResponseDoneMsg == [type |-> "response.done", response |-> [output |-> response_output]]

\* what the model sends: a call announced, and the turn's end
DoneFrames == <<
    TextFrame(json_dumps([type |-> "conversation.item.added", previous_item_id |-> "i0",
                          item |-> FunctionCall("c1", KnownTool, GoodArgs)])),
    TextFrame(json_dumps(ResponseDoneMsg)) >>

InitDone ==
    /\ closers = NoClose /\ close_frames = 0 /\ peer = NoPeer
    /\ response_output \in OutputLists /\ twins = NoTwins /\ loaded = AsLoaded
    /\ overrides = NoOverrides
    /\ adapter_kind = "backend_acs"
    /\ is_acs_audio_stream \in BOOLEAN
    /\ key = "k" /\ token_provider = Null
    /\ tools = {KnownTool}
    /\ system_message = "SYS"
    /\ headers = EmptyDict
    /\ fwd = "init"
    /\ target_ws = "none"
    /\ c2s = "idle"
    /\ s2c = "idle"
    /\ first_exc = "none"
    /\ tools_pending = {}
    /\ cur = NoneMsg
    /\ adapter_closed = FALSE
    /\ client_sock = "open"
    /\ from_client = <<>>
    /\ from_model = <<>>
    /\ to_model = <<>>
    /\ to_client = <<>>
    /\ executed = <<>>

NextDone ==
    \/ Connect
    \/ S2CFrame(DoneFrames)
    \/ S2CEnd
    \/ ClientDrop
    \/ ModelClose

SpecDone == InitDone /\ [][NextDone]_vars

\* the items of a list that are not function calls, in the list's order
NonFunctionCalls(outputs) == SelectSeq(outputs, LAMBDA x : x.type # "function_call")

\* the texts written to the client for the k-th model frame
WrittenFor(k) == SelectSeq(to_client, LAMBDA e : e.at = k)

\* C27: for every response.output the model sends, the response.done written
\* to the client is the model's message with response.output replaced by its
\* items that are not function calls, in their original order: no function
\* call is left in it, no other item is lost, repeated or moved. On the
\* native route, to a client that is connected, it is written exactly once.
C27_ResponseDoneFiltered ==
    \A k \in 1..Len(from_model) :
       Typed(from_model[k], "response.done") =>
          /\ \A e \in 1..Len(WrittenFor(k)) :
                LET m == json_loads(WrittenFor(k)[e].data)
                IN  /\ m = [ResponseDoneMsg EXCEPT
                              !.response.output = NonFunctionCalls(response_output)]
                    /\ \A i \in 1..Len(m.response.output) :
                          m.response.output[i].type # "function_call"
          /\ (~is_acs_audio_stream /\ client_sock = "open" /\ ~adapter_closed)
             => Len(WrittenFor(k)) = 1

\* a response.output with two equal function calls around a message was
\* filtered and written to the client while a call was pending
C27_Witness ==
    /\ Len(response_output) = 3
    /\ response_output[1].type = "function_call"
    /\ response_output[2].type = "message"
    /\ response_output[3] = response_output[1]
    /\ Len(from_model) = 2 /\ Announces(from_model[1])
    /\ Typed(from_model[2], "response.done")
    /\ Len(WrittenFor(2)) = 1
    /\ json_loads(WrittenFor(2)[1].data).response.output = <<response_output[2]>>

\* ------------------------------------------- session.created / .updated
\* the session fields the session.created case overwrites, and their values
Stripped ==
    [instructions |-> "", tools |-> "[]", tool_choice |-> "none",
     max_response_output_tokens |-> Null]

\* what the model may echo as its session
SessionEchoes == <<
    EchoedSession,
    [voice |-> "alloy"],
    [instructions |-> "", tools |-> "[]", tool_choice |-> "none",
     max_response_output_tokens |-> Null, id |-> "sess_1"],
    [instructions |-> "SYS", temperature |-> "0.8", modalities |-> "text,audio"] >>

SessionMsgs ==
    [i \in 1..Len(SessionEchoes) |->
        [type |-> "session.created", event_id |-> "ev1", session |-> SessionEchoes[i]]]
    \o << [type |-> "session.updated", session |-> EchoedSession] >>

SessionFrames == [i \in 1..Len(SessionMsgs) |-> TextFrame(json_dumps(SessionMsgs[i]))]

\* the client's requests that the model acknowledges with session.updated
SessionClientFrames ==
    << TextFrame(json_dumps(ClientMsgs[1])), TextFrame(json_dumps(ClientMsgs[3])) >>

InitSession ==
    /\ closers = NoClose /\ close_frames = 0 /\ peer = NoPeer
    /\ response_output = <<>> /\ twins = NoTwins /\ loaded = AsLoaded
    /\ overrides = NoOverrides
    /\ adapter_kind \in {"backend_acs", "base"}
    /\ is_acs_audio_stream \in BOOLEAN
    /\ key = "k" /\ token_provider = Null
    /\ tools = {KnownTool}
    /\ system_message = "SYS"
    /\ headers = EmptyDict
    /\ fwd = "init"
    /\ target_ws = "none"
    /\ c2s = "idle"
    /\ s2c = "idle"
    /\ first_exc = "none"
    /\ tools_pending = {}
    /\ cur = NoneMsg
    /\ adapter_closed = FALSE
    /\ client_sock = "open"
    /\ from_client = <<>>
    /\ from_model = <<>>
    /\ to_model = <<>>
    /\ to_client = <<>>
    /\ executed = <<>>

NextSession ==
    \/ Connect
    \/ Join
    \/ C2SFrame(SessionClientFrames)
    \/ C2SDisconnect
    \/ S2CFrame(SessionFrames)
    \/ S2CEnd
    \/ ClientDrop
    \/ ModelClose

SpecSession == InitSession /\ [][NextSession]_vars

\* C28: for every session.created the model sends, whatever session it
\* echoes, a text written to the client for it is the model's message with
\* session.instructions "", session.tools empty, session.tool_choice "none"
\* and session.max_response_output_tokens null, and every other field, of
\* the session and of the message, as the model sent it. On the native
\* route, to a client that is connected, it is written exactly once; on the
\* telephony route nothing is written for it.
C28_SessionCreatedStripped ==
    \A k \in 1..Len(from_model) :
       Typed(from_model[k], "session.created") =>
          LET orig == json_loads(from_model[k].data)
          IN  /\ \A e \in 1..Len(WrittenFor(k)) :
                    LET m == json_loads(WrittenFor(k)[e].data)
                    IN  /\ DOMAIN m = DOMAIN orig
                        /\ \A f \in DOMAIN orig \ {"session"} : m[f] = orig[f]
                        /\ DOMAIN m.session = DOMAIN orig.session \cup DOMAIN Stripped
                        /\ \A f \in DOMAIN Stripped : m.session[f] = Stripped[f]
                        /\ \A f \in DOMAIN orig.session \ DOMAIN Stripped :
                              m.session[f] = orig.session[f]
              /\ (~is_acs_audio_stream /\ client_sock = "open" /\ ~adapter_closed)
                 => Len(WrittenFor(k)) = 1
              /\ is_acs_audio_stream => Len(WrittenFor(k)) = 0

\* a session.created that echoed instructions, tools, tool_choice and a token
\* cap was written to the native-route client, with its voice still in it
C28_Witness ==
    /\ ~is_acs_audio_stream
    /\ \E k \in 1..Len(from_model) :
          /\ from_model[k] = SessionFrames[1]
          /\ Len(WrittenFor(k)) = 1
          /\ json_loads(WrittenFor(k)[1].data).session.voice = "alloy"
          /\ json_loads(WrittenFor(k)[1].data).session.tool_choice = "none"

\* what the model->client loop sent to the model for its k-th frame
SentFor(k) == SelectSeq(to_model, LAMBDA e : e.by = "s2c" /\ e.at = k)

\* a step reads a session.updated from the model
ReadsSessionUpdated ==
    /\ Len(from_model') = Len(from_model) + 1
    /\ Typed(Last(from_model'), "session.updated")

\* C29: the step that reads a session.updated sends exactly one message to
\* the model, a response.create, before any further frame is read; and in
\* every state exactly one message, that response.create, has been sent for
\* each session.updated read so far, the first and every later one.
C29_SessionUpdatedTriggersResponse ==
    /\ [](\A k \in 1..Len(from_model) :
             Typed(from_model[k], "session.updated") =>
                /\ Len(SentFor(k)) = 1
                /\ json_loads(SentFor(k)[1].data) = [type |-> "response.create"])
    /\ [][ReadsSessionUpdated =>
             (/\ Len(to_model') = Len(to_model) + 1
              /\ Last(to_model').by = "s2c"
              /\ Last(to_model').at = Len(from_model')
              /\ json_loads(Last(to_model').data) = [type |-> "response.create"])]_vars

\* the model acknowledged twice, after a request of the client, and a
\* response.create went out for the first and for the second
C29_Witness ==
    /\ Len(from_client) >= 1 /\ Len(from_model) >= 2
    /\ Typed(from_model[1], "session.updated") /\ Typed(from_model[2], "session.updated")
    /\ Len(SentFor(1)) = 1 /\ Len(SentFor(2)) = 1
    /\ s2c = "read"

\* ------------------------------------------ follow-ups and the next read
\* the executor is awaited for the k-th model frame, or was
Executes(k) == \E e \in 1..Len(executed) : executed[e].at = k

\* C30: the model->client loop sends a follow-up while the frame that
\* triggered it is the last one it has read. While an executor is awaited the
\* loop reads no frame; once a later frame has been read, the
\* function_call_output of every call executed before it has been sent; each
\* message the loop sends is for the frame it read last, so that the
\* function_call_output of a call comes before the response.create of the
\* response.done that follows it.
C30_FollowUpBeforeNextRead ==
    /\ [](s2c = "tool" => cur.at = Len(from_model))
    /\ [](\A k \in 1..(Len(from_model) - 1) : Executes(k) => OutputSent(k))
    /\ [](\A i, j \in 1..Len(to_model) :
             (i < j /\ to_model[i].by = "s2c" /\ to_model[j].by = "s2c")
             => to_model[i].at < to_model[j].at)
    /\ [][(s2c = "tool") => from_model' = from_model]_vars
    /\ [][\A e \in 1..Len(Appended(to_model, to_model')) :
             Appended(to_model, to_model')[e].by = "s2c"
             => Appended(to_model, to_model')[e].at = Len(from_model')]_vars

\* a call was announced and completed and the turn ended: the
\* function_call_output went out for the second frame, the response.create
\* for the third, in that order
C30_Witness ==
    /\ Len(from_model) = 3 /\ s2c = "read"
    /\ Announces(from_model[1]) /\ Completes(from_model[2])
    /\ Typed(from_model[3], "response.done")
    /\ Len(to_model) = 2
    /\ OutputSent(2) /\ to_model[1].at = 2
    /\ to_model[2].at = 3 /\ json_loads(to_model[2].data) = [type |-> "response.create"]

\* ------------------------------------------------ who writes what (Spec)
\* a step of the client->model loop: it read a frame or changed its position
ClientLoopStep == from_client' # from_client \/ c2s' # c2s
\* a step of the model->client loop
ModelLoopStep == from_model' # from_model \/ s2c' # s2c

\* C31: a step of the client->model loop leaves the tracker, the session
\* configuration and the tool registry as they are; the tracker changes only
\* in a step of the model->client loop; and no step changes the registry or
\* the configuration.
C31_SingleWriter ==
    /\ [][ClientLoopStep => (tools_pending' = tools_pending /\ config' = config
                             /\ overrides' = overrides)]_vars
    /\ [][(tools_pending' # tools_pending) => ModelLoopStep]_vars
    /\ [][tools' = tools /\ system_message' = system_message
          /\ is_acs_audio_stream' = is_acs_audio_stream /\ overrides' = overrides]_vars

\* the client->model loop sent a message while a call was pending and its
\* executor awaited, and the call is still pending
C31_Witness ==
    /\ tools_pending # {}
    /\ \E e \in 1..Len(to_model) : to_model[e].by = "c2s" /\ to_model[e].tool

\* ------------------------------------------ telephony route, toward client
\* what the model may send on a telephony call
TelephonyModelMsgs == <<
    [type |-> "session.created", session |-> EchoedSession],
    [type |-> "session.updated", session |-> EchoedSession],
    [type |-> "error", error |-> [message |-> "bad request"]],
    [type |-> "response.done", response |-> [output |-> <<MessageItem>>]],
    [type |-> "response.output_text.delta", delta |-> "hello"],
    [type |-> "vendor.unrecognised", payload |-> "p"],
    [type |-> "response.output_audio.delta", delta |-> "QUJD"],
    [type |-> "response.audio.delta", delta |-> "QUJD"],
    [type |-> "input_audio_buffer.speech_started"] >>

TelephonyModelFrames ==
    [i \in 1..Len(TelephonyModelMsgs) |-> TextFrame(json_dumps(TelephonyModelMsgs[i]))]

InitTelephony ==
    /\ closers = NoClose /\ close_frames = 0 /\ peer = NoPeer
    /\ response_output = <<>> /\ twins = NoTwins /\ loaded = AsLoaded
    /\ overrides = NoOverrides
    /\ adapter_kind \in {"backend_acs", "base"}
    /\ is_acs_audio_stream = TRUE
    /\ key = "k" /\ token_provider = Null
    /\ tools = {KnownTool}
    /\ system_message = "SYS"
    /\ headers = EmptyDict
    /\ fwd = "init"
    /\ target_ws = "none"
    /\ c2s = "idle"
    /\ s2c = "idle"
    /\ first_exc = "none"
    /\ tools_pending = {}
    /\ cur = NoneMsg
    /\ adapter_closed = FALSE
    /\ client_sock = "open"
    /\ from_client = <<>>
    /\ from_model = <<>>
    /\ to_model = <<>>
    /\ to_client = <<>>
    /\ executed = <<>>

NextTelephony ==
    \/ Connect
    \/ Join
    \/ C2SDisconnect
    \/ S2CFrame(TelephonyModelFrames)
    \/ S2CEnd
    \/ ClientDrop
    \/ ModelClose

SpecTelephony == InitTelephony /\ [][NextTelephony]_vars

\* the model message types that have a telephony form
TelephonyTypes ==
    {"response.output_audio.delta", "response.audio.delta",
     "input_audio_buffer.speech_started"}

\* C32: on the telephony route every text written to the client is a message
\* of kind AudioData or StopAudio, written for an audio delta or an
\* input_audio_buffer.speech_started of the model; for a model message of any
\* other type nothing is written to the client, and the loop goes on to the
\* next frame.
C32_TelephonyClientSeesAudioOnly ==
    is_acs_audio_stream =>
       /\ \A e \in 1..Len(to_client) :
             LET m == json_loads(to_client[e].data)
             IN  /\ Has(m, "kind") /\ m.kind \in {"AudioData", "StopAudio"}
                 /\ json_loads(from_model[to_client[e].at].data).type \in TelephonyTypes
       /\ \A k \in 1..Len(from_model) :
             json_loads(from_model[k].data).type \notin TelephonyTypes =>
                /\ WrittenFor(k) = <<>>
                /\ k < Len(from_model) \/ s2c \in {"read", "done"}

\* a session.updated, an error and a response.done were handled on a
\* telephony call whose client is connected, nothing was written for them,
\* and the loop reads on
C32_Witness ==
    /\ is_acs_audio_stream /\ client_sock = "open" /\ ~adapter_closed
    /\ Len(from_model) = 3 /\ s2c = "read" /\ to_client = <<>>
    /\ Typed(from_model[1], "session.updated")
    /\ Typed(from_model[2], "error")
    /\ Typed(from_model[3], "response.done")

\* ------------------------------------------ telephony route, toward model
\* what a telephony client may send: the two kinds the transform knows, an
\* unknown kind, model-protocol events, and frames that carry both
ProfileClientMsgs == <<
    [kind |-> "AudioMetadata"],
    [kind |-> "AudioData", audioData |-> [data |-> "QUJD"]],
    [kind |-> "DtmfData", dtmfData |-> [data |-> "5"]],
    [type |-> "response.create"],
    [type |-> "session.update",
     session |-> [instructions |-> "leak", tools |-> "[client-tool]"]],
    [type |-> "conversation.item.create",
     item |-> [type |-> "message", role |-> "system"]],
    [kind |-> "AudioMetadata", type |-> "session.update",
     session |-> [instructions |-> "leak", tools |-> "[client-tool]"]],
    [kind |-> "AudioData", type |-> "response.create",
     audioData |-> [data |-> "QUJD"]] >>

ProfileClientFrames ==
    [i \in 1..Len(ProfileClientMsgs) |-> TextFrame(json_dumps(ProfileClientMsgs[i]))]

InitProfile ==
    /\ closers = NoClose /\ close_frames = 0 /\ peer = NoPeer
    /\ response_output = <<>> /\ twins = NoTwins /\ loaded = AsLoaded
    /\ \E sc \in SessionConfigs :
          /\ tools = sc.reg
          /\ system_message = sc.system_message
          /\ overrides = [temperature |-> sc.temperature, max_tokens |-> sc.max_tokens,
                          disable_audio |-> sc.disable_audio,
                          use_voicelive |-> sc.use_voicelive]
    /\ adapter_kind = "backend_acs"
    /\ is_acs_audio_stream = TRUE
    /\ key = "k" /\ token_provider = Null
    /\ headers = EmptyDict
    /\ fwd = "init"
    /\ target_ws = "none"
    /\ c2s = "idle"
    /\ s2c = "idle"
    /\ first_exc = "none"
    /\ tools_pending = {}
    /\ cur = NoneMsg
    /\ adapter_closed = FALSE
    /\ client_sock = "open"
    /\ from_client = <<>>
    /\ from_model = <<>>
    /\ to_model = <<>>
    /\ to_client = <<>>
    /\ executed = <<>>

NextProfile ==
    \/ Connect
    \/ Join
    \/ C2SFrame(ProfileClientFrames)
    \/ C2SDisconnect
    \/ S2CEnd
    \/ ClientDrop
    \/ ModelClose

SpecProfile == InitProfile /\ [][NextProfile]_vars

\* what the transform returns for an AudioMetadata message in this session
MetadataUpdate ==
    transform_acs_to_openai_format([kind |-> "AudioMetadata"], tools, system_message,
        overrides.temperature, overrides.max_tokens, overrides.disable_audio,
        overrides.use_voicelive)

\* the values the session provides, null when it provides none
Provided ==
    [instructions |-> system_message, temperature |-> overrides.temperature,
     max_response_output_tokens |-> overrides.max_tokens,
     disable_audio |-> overrides.disable_audio]

\* the profile the routing mode selects
Profile == SESSION_CONFIG(IF overrides.use_voicelive THEN "voicelive" ELSE "realtime")

\* the value key k must have in the session of the session.update, null
\* when the key must be absent
Resolved(k) ==
    IF k = "tool_choice" THEN (IF tools # {} THEN "auto" ELSE "none")
    ELSE IF k = "tools" THEN (IF tools # {} THEN "[schema:get_billing_info]" ELSE "[]")
    ELSE IF Has(Provided, k) /\ Provided[k] # Null THEN Provided[k]
    ELSE IF Has(Profile, k) THEN Profile[k]
    ELSE Null

\* what the client->model loop sent for its k-th frame
SentForClient(k) == SelectSeq(to_model, LAMBDA e : e.by = "c2s" /\ e.at = k)

\* C33: the transform of an AudioMetadata message is a session.update, with
\* nothing but type and session, whose session has exactly the keys that
\* resolve to a value that is not null: tool_choice "auto" when a tool is
\* registered and "none" when none is, tools the registered schemas, each of
\* instructions, temperature, max_response_output_tokens and disable_audio
\* the session's value when it provides one, and everything else as in the
\* profile of the routing mode. The session.update sent for an AudioMetadata
\* frame carries each of these keys with that value, instructions apart,
\* which the relay sets again.
C33_MetadataToSessionUpdate ==
    LET s == MetadataUpdate.session
        keys == DOMAIN Profile \cup DOMAIN Provided \cup {"tool_choice", "tools"}
    IN  /\ DOMAIN MetadataUpdate = {"type", "session"}
        /\ MetadataUpdate.type = "session.update"
        /\ DOMAIN s = {k \in keys : Resolved(k) # Null}
        /\ \A k \in DOMAIN s : s[k] = Resolved(k) /\ s[k] # Null
        /\ \A k \in 1..Len(from_client) :
              (from_client[k] = ProfileClientFrames[1] /\ SentForClient(k) # <<>>) =>
                 LET sent == json_loads(SentForClient(k)[1].data).session
                 IN  \A f \in DOMAIN s \ {"instructions"} : Has(sent, f) /\ sent[f] = s[f]

\* a voicelive session with a temperature of its own and no system message
\* has sent the session.update for an AudioMetadata frame, with the
\* voicelive voice and that temperature in it
C33_Witness ==
    /\ overrides.use_voicelive /\ overrides.temperature = "0.8" /\ system_message = Null
    /\ Len(from_client) >= 1 /\ from_client[1] = ProfileClientFrames[1]
    /\ Len(SentForClient(1)) = 1
    /\ json_loads(SentForClient(1)[1].data).session.voice = "en-US-Ava"
    /\ json_loads(SentForClient(1)[1].data).session.temperature = "0.8"
    /\ ~Has(MetadataUpdate.session, "instructions")
    /\ ~Has(MetadataUpdate.session, "max_response_output_tokens")

\* the kind of the client's k-th frame, null when it has none
KindOf(k) ==
    IF Has(json_loads(from_client[k].data), "kind")
    THEN json_loads(from_client[k].data).kind ELSE Null

\* the session.update the relay sends for an AudioMetadata message
EnforcedMetadataUpdate == EnforceSession(MetadataUpdate, tools, system_message)

\* C38: on the telephony route a message the client->model loop sends is
\* either the session.update built from the server's profile and settings,
\* sent for a frame of kind AudioMetadata and the same whatever else that
\* frame carries, or an input_audio_buffer.append with nothing but the audio
\* of a frame of kind AudioData; a frame of any other kind, or with no kind
\* (a model-protocol event), results in no send, and the loop reads on.
C38_TelephonyClientCannotInject ==
    is_acs_audio_stream =>
       /\ \A e \in 1..Len(to_model) :
             to_model[e].by = "c2s" =>
                LET m == json_loads(to_model[e].data)
                    f == json_loads(from_client[to_model[e].at].data)
                IN  \/ /\ KindOf(to_model[e].at) = "AudioMetadata"
                       /\ m.type = "session.update"
                       /\ m = EnforcedMetadataUpdate
                    \/ /\ KindOf(to_model[e].at) = "AudioData"
                       /\ m = [type |-> "input_audio_buffer.append",
                               audio |-> f.audioData.data]
       /\ \A k \in 1..Len(from_client) :
             KindOf(k) \notin {"AudioMetadata", "AudioData"} =>
                /\ SentForClient(k) = <<>>
                /\ k < Len(from_client) \/ c2s \in {"read", "done"}

\* a telephony client sent response.create, a session.update of its own and
\* an AudioMetadata frame with a session.update inside: only the last one
\* led to a send, the server's session.update
C38_Witness ==
    /\ is_acs_audio_stream /\ Len(from_client) = 3 /\ c2s = "read"
    /\ from_client[1] = ProfileClientFrames[4]
    /\ from_client[2] = ProfileClientFrames[5]
    /\ from_client[3] = ProfileClientFrames[7]
    /\ Len(to_model) = 1 /\ to_model[1].at = 3
    /\ json_loads(to_model[1].data).session.instructions = system_message

\* -------------------------------------------------- malformed messages
\* the message has none of the fields its route's handler looks at first
Shapeless(msg, telephony_client) ==
    IF telephony_client THEN ~Has(msg, "kind") ELSE ~Has(msg, "type")

\* C34 (as claimed): a frame that decodes to a message without kind (from a
\* telephony client) or without type (from a native client, or from the
\* model) ends neither the loop that read it nor forward_messages, and
\* nothing is sent for it.
C34_MalformedShapeRecovered ==
    /\ \A k \in 1..Len(from_client) :
          (Decodes(from_client[k])
           /\ Shapeless(json_loads(from_client[k].data), is_acs_audio_stream)) =>
             /\ k < Len(from_client) \/ c2s # "failed"
             /\ SentForClient(k) = <<>>
    /\ \A k \in 1..Len(from_model) :
          (Decodes(from_model[k]) /\ Shapeless(json_loads(from_model[k].data), FALSE)) =>
             /\ k < Len(from_model) \/ s2c # "failed"
             /\ WrittenFor(k) = <<>>

\* ------------------------------------------ the two adapters side by side
\* the most events and calls the two adapters are given
MaxCalls == 3

\* what websocket.receive() may do: return a text, a bytes, another or a
\* disconnect event, or raise WebSocketDisconnect or another error
SocketEvents ==
    {"text", "bytes", "other", "disconnect", "WebSocketDisconnect", "RuntimeError"}

Saw(a, what) == [a EXCEPT !.seen = Append(@, what)]
Closed(a) == [a EXCEPT !.closed = TRUE]

\* __anext__ of either class on one socket event; on an event it does not
\* know the class of backend_acs.py awaits the next one within the same call
anext(kind, a, ev) ==
    IF ev = "text" THEN Saw(a, "TEXT")
    ELSE IF ev = "bytes" THEN Saw(a, "BINARY")
    ELSE IF ev \in {"disconnect", "WebSocketDisconnect"}
    THEN Saw(Closed(a), "StopAsyncIteration")
    ELSE IF ev = "other"
    THEN IF kind = "backend_acs" THEN a ELSE Saw(a, "raw event")
    ELSE IF kind = "backend_acs" THEN Saw(Closed(a), "StopAsyncIteration")
    ELSE Saw(a, "raises RuntimeError")

\* send_str / send_json of either class, on a socket that takes the text or
\* raises
sends(kind, a, sock, data) ==
    LET r == send_str(kind, a.closed, sock, data)
    IN  [closed |-> r.closed, seen |-> Append(a.seen, "send: " \o r.exc),
         wrote |-> a.wrote \o r.wrote]

\* close(): the class of backend_acs.py has none
close(kind, a) ==
    IF kind = "backend_acs" THEN Saw(a, "raises AttributeError")
    ELSE IF a.closed THEN Saw(a, "close: none")
    ELSE [closed |-> TRUE, seen |-> Append(a.seen, "close: none"),
          wrote |-> Append(a.wrote, "CLOSE")]

\* both adapters after the same step
Both(step(_, _)) ==
    [backend_acs |-> step("backend_acs", twins.backend_acs),
     base |-> step("base", twins.base),
     calls |-> twins.calls + 1]

AllButTwins ==
    <<config, headers, fwd, target_ws, c2s, s2c, first_exc, tools_pending, cur,
      adapter_closed, client_sock, logs, closers, close_frames, peer,
      response_output, overrides, loaded>>

TwinsReceive ==
    /\ twins.calls < MaxCalls
    /\ \E ev \in SocketEvents : twins' = Both(LAMBDA kind, a : anext(kind, a, ev))
    /\ UNCHANGED AllButTwins

TwinsSend ==
    /\ twins.calls < MaxCalls
    /\ \E sock \in {"open", "gone"} :
          twins' = Both(LAMBDA kind, a : sends(kind, a, sock, "t"))
    /\ UNCHANGED AllButTwins

TwinsClose ==
    /\ twins.calls < MaxCalls
    /\ twins' = Both(close)
    /\ UNCHANGED AllButTwins

InitAdapters ==
    /\ closers = NoClose /\ close_frames = 0 /\ peer = NoPeer
    /\ response_output = <<>> /\ twins = NoTwins /\ loaded = AsLoaded
    /\ overrides = NoOverrides
    /\ adapter_kind = "base"
    /\ is_acs_audio_stream = TRUE
    /\ key = "k" /\ token_provider = Null
    /\ tools = {KnownTool}
    /\ system_message = "SYS"
    /\ headers = EmptyDict
    /\ fwd = "init"
    /\ target_ws = "none"
    /\ c2s = "idle"
    /\ s2c = "idle"
    /\ first_exc = "none"
    /\ tools_pending = {}
    /\ cur = NoneMsg
    /\ adapter_closed = FALSE
    /\ client_sock = "open"
    /\ from_client = <<>>
    /\ from_model = <<>>
    /\ to_model = <<>>
    /\ to_client = <<>>
    /\ executed = <<>>

NextAdapters ==
    \/ TwinsReceive
    \/ TwinsSend
    \/ TwinsClose

SpecAdapters == InitAdapters /\ [][NextAdapters]_vars

\* C35 (as claimed): given the same socket events and the same calls, the
\* two adapters have shown their caller the same frames, ends of stream and
\* errors, are closed or not alike, and have written the same to the socket;
\* and what an iteration yields is a text frame, a binary frame or the end
\* of the stream.
C35_AdaptersEquivalent ==
    /\ twins.backend_acs = twins.base
    /\ \A kind \in {"backend_acs", "base"} : \A i \in 1..Len(twins[kind].seen) :
          twins[kind].seen[i] # "raw event"

\* ------------------------------------------------ native route, toward model
\* what a native client may send: events the relay has a case for, one it
\* has none for, and its own session.update
NativeClientMsgs == <<
    [type |-> "input_audio_buffer.append", audio |-> "QUJD"],
    [type |-> "response.create",
     response |-> [instructions |-> "client", tools |-> "[client-tool]"]],
    [type |-> "conversation.item.create", previous_item_id |-> Null,
     item |-> [type |-> "message", role |-> "user", content |-> <<"hi">>]],
    [type |-> "response.cancel", event_id |-> "e7"],
    [type |-> "vendor.unrecognised", session |-> [instructions |-> "client"]],
    [type |-> "session.update", session |-> [instructions |-> "leak", voice |-> "alloy"]] >>

NativeClientFrames ==
    [i \in 1..Len(NativeClientMsgs) |-> TextFrame(json_dumps(NativeClientMsgs[i]))]

InitNative ==
    /\ closers = NoClose /\ close_frames = 0 /\ peer = NoPeer
    /\ response_output = <<>> /\ twins = NoTwins /\ loaded = AsLoaded
    /\ overrides = NoOverrides
    /\ adapter_kind \in {"backend_acs", "base"}
    /\ is_acs_audio_stream = FALSE
    /\ key = "k" /\ token_provider = Null
    /\ tools \in {{KnownTool}, {}}
    /\ system_message = "SYS"
    /\ headers = EmptyDict
    /\ fwd = "init"
    /\ target_ws = "none"
    /\ c2s = "idle"
    /\ s2c = "idle"
    /\ first_exc = "none"
    /\ tools_pending = {}
    /\ cur = NoneMsg
    /\ adapter_closed = FALSE
    /\ client_sock = "open"
    /\ from_client = <<>>
    /\ from_model = <<>>
    /\ to_model = <<>>
    /\ to_client = <<>>
    /\ executed = <<>>

NextNative ==
    \/ Connect
    \/ Join
    \/ C2SFrame(NativeClientFrames)
    \/ C2SDisconnect
    \/ S2CEnd
    \/ ClientDrop
    \/ ModelClose

SpecNative == InitNative /\ [][NextNative]_vars

\* the client's k-th frame was taken by the loop: it decodes to a message
\* with a type, and the loop did not end on it
Accepted(k) ==
    /\ Decodes(from_client[k])
    /\ Has(json_loads(from_client[k].data), "type")
    /\ k < Len(from_client) \/ c2s # "failed"

\* C36: on the native route exactly one message is sent to the model for each
\* client frame the loop has taken, none for any other, and in the order of
\* the frames; and for a frame whose type is not session.update the message
\* sent is the client's message, field for field. The loop ends on a frame
\* only when the model connection is no longer open.
C36_NativeVerbatim ==
    ~is_acs_audio_stream =>
       /\ \A k \in 1..Len(from_client) :
             /\ Accepted(k) => Len(SentForClient(k)) = 1
             /\ ~Accepted(k) => SentForClient(k) = <<>>
             /\ (Accepted(k) /\ ~Typed(from_client[k], "session.update")) =>
                   json_loads(SentForClient(k)[1].data) = json_loads(from_client[k].data)
       /\ StrictlyIncreasing(SentBy("c2s"))
       /\ c2s = "failed" => first_exc = "ConnectionResetError"

\* a response.create with fields of its own, a conversation.item.create and
\* a message of a type the relay has no case for each went to the model
C36_Witness ==
    /\ ~is_acs_audio_stream /\ Len(from_client) = 3 /\ Len(to_model) = 3
    /\ from_client[1] = NativeClientFrames[2]
    /\ from_client[2] = NativeClientFrames[3]
    /\ from_client[3] = NativeClientFrames[5]
    /\ \A k \in 1..3 : json_loads(to_model[k].data) = NativeClientMsgs[IF k = 3 THEN 5 ELSE k + 1]

\* ------------------------------------ the loaded profiles, session after session
MaxSessions == 2

AllButLoaded ==
    <<config, headers, fwd, target_ws, c2s, s2c, first_exc, tools_pending, cur,
      adapter_closed, client_sock, logs, closers, close_frames, peer,
      response_output, overrides, twins>>

\* one more telephony session, configured as sc, sends its AudioMetadata:
\* the transform builds session_data from the loaded profile and assigns to
\* its keys, the relay's session.update case then sets the enforced fields
\* on the dict the transform returned, and the result is sent
MetadataInSession(sc) ==
    /\ Len(loaded.updates) < MaxSessions
    /\ LET config_key == IF sc.use_voicelive THEN "voicelive" ELSE "realtime"
           session_data == DeepCopy(loaded.config, config_key)
           assigned == Overlaid(session_data.val, sc.reg, sc.system_message,
                                sc.temperature, sc.max_tokens, sc.disable_audio)
           oai_message == [type |-> "session.update", session |-> DropNulls(assigned)]
       IN  loaded' =
             [config |-> IF session_data.ref = "copy" THEN loaded.config
                         ELSE [loaded.config EXCEPT ![session_data.ref] = assigned],
              updates |-> Append(loaded.updates,
                                 [session |-> sc,
                                  data |-> json_dumps(EnforceSession(oai_message, sc.reg,
                                                                     sc.system_message))])]
    /\ UNCHANGED AllButLoaded

InitLoaded ==
    /\ closers = NoClose /\ close_frames = 0 /\ peer = NoPeer
    /\ response_output = <<>> /\ twins = NoTwins /\ loaded = AsLoaded
    /\ overrides = NoOverrides
    /\ adapter_kind = "backend_acs"
    /\ is_acs_audio_stream = TRUE
    /\ key = "k" /\ token_provider = Null
    /\ tools = {KnownTool}
    /\ system_message = "SYS"
    /\ headers = EmptyDict
    /\ fwd = "init"
    /\ target_ws = "none"
    /\ c2s = "idle"
    /\ s2c = "idle"
    /\ first_exc = "none"
    /\ tools_pending = {}
    /\ cur = NoneMsg
    /\ adapter_closed = FALSE
    /\ client_sock = "open"
    /\ from_client = <<>>
    /\ from_model = <<>>
    /\ to_model = <<>>
    /\ to_client = <<>>
    /\ executed = <<>>

NextLoaded == \E sc \in SessionConfigs : MetadataInSession(sc)

SpecLoaded == InitLoaded /\ [][NextLoaded]_vars

\* the session.update a session configured as sc sends when nothing but the
\* profile as loaded and its own settings goes into it
FromPristine(sc) ==
    EnforceSession(
        transform_acs_to_openai_format([kind |-> "AudioMetadata"], sc.reg,
            sc.system_message, sc.temperature, sc.max_tokens, sc.disable_audio,
            sc.use_voicelive),
        sc.reg, sc.system_message)

\* C37: whatever sessions have sent an AudioMetadata so far, the loaded
\* profiles are as they were loaded, and the session.update sent for each
\* session is the one built from the profile as loaded and that session's own
\* settings: nothing an earlier session set is in it.
C37_ProfileNeverModified ==
    /\ loaded.config = [k \in {"voicelive", "realtime"} |-> SESSION_CONFIG(k)]
    /\ \A i \in 1..Len(loaded.updates) :
          json_loads(loaded.updates[i].data) = FromPristine(loaded.updates[i].session)

\* a session that sets a temperature and a system message, then one on the
\* same profile that sets neither: the second session.update has no
\* temperature, and its instructions are not the first session's
C37_Witness ==
    /\ Len(loaded.updates) = 2
    /\ loaded.updates[1].session.temperature = "0.8"
    /\ loaded.updates[1].session.system_message = "SYS"
    /\ loaded.updates[2].session.temperature = Null
    /\ loaded.updates[2].session.system_message = Null
    /\ loaded.updates[1].session.use_voicelive = loaded.updates[2].session.use_voicelive
    /\ Has(json_loads(loaded.updates[1].data).session, "temperature")
    /\ ~Has(json_loads(loaded.updates[2].data).session, "temperature")
    /\ json_loads(loaded.updates[2].data).session.instructions = Null

\* --------------------------------------------- session.updated, forwarded
\* C39: on the native route a text written to the client for a
\* session.updated is the model's message, its session field for field as
\* the model sent it, the instructions and the tool list the model echoed
\* included; the overwriting of session fields happens for session.created
\* alone. Exactly one text is written for it while the client's socket is
\* open, its adapter not closed and the loop did not end on the message.
C39_SessionUpdatedForwarded ==
    ~is_acs_audio_stream =>
       \A k \in 1..Len(from_model) :
          Typed(from_model[k], "session.updated") =>
             /\ \A e \in 1..Len(WrittenFor(k)) :
                   json_loads(WrittenFor(k)[e].data) = json_loads(from_model[k].data)
             /\ Len(WrittenFor(k)) <= 1
             /\ (/\ client_sock = "open" /\ ~adapter_closed
                 /\ k < Len(from_model) \/ s2c # "failed")
                => Len(WrittenFor(k)) = 1

\* after the client's session.update the model echoed the enforced
\* instructions and tool list in a session.updated, and the client got them
C39_Witness ==
    /\ ~is_acs_audio_stream
    /\ Len(from_client) >= 1 /\ Typed(from_client[1], "session.update")
    /\ \E k \in 1..Len(from_model) :
          /\ Typed(from_model[k], "session.updated")
          /\ Len(WrittenFor(k)) = 1
          /\ json_loads(WrittenFor(k)[1].data).session.instructions = "SYS"
          /\ json_loads(WrittenFor(k)[1].data).session.tools = "[schema:get_billing_info]"
          /\ json_loads(WrittenFor(k)[1].data).session.tool_choice = "auto"

\* ------------------------------------------- after the client has gone
\* the client->model loop ends because the adapter saw the disconnect
ClientStreamEnds == c2s = "read" /\ c2s' = "done"

\* C40: an adapter that is closed stays closed, and no step taken while it
\* is closed writes to the client's socket. The step in which the
\* client->model loop ends on the disconnect marks the adapter closed and
\* changes nothing of the model->client loop, the model connection, the
\* tracker or the run as a whole. From then on, while the model connection
\* is open, the model->client loop is where it was: the next model frame can
\* be read and handled, an awaited executor can return, and the loop has
\* ended only by an exception of its own; a response.done read while a call
\* is pending is followed by a response.create to the model, and an executor
\* that returns by its function_call_output, as before.
C40_ModelLoopOutlivesClient ==
    /\ [][adapter_closed => adapter_closed']_vars
    /\ [][adapter_closed => to_client' = to_client]_vars
    /\ [][ClientStreamEnds =>
            (/\ adapter_closed'
             /\ UNCHANGED <<s2c, target_ws, fwd, first_exc, tools_pending, cur,
                            to_model, to_client, executed, from_model>>)]_vars
    /\ []((adapter_closed /\ c2s = "done" /\ target_ws = "open") =>
            /\ fwd = "running"
            /\ s2c \in {"read", "tool", "failed"}
            /\ (s2c = "read" /\ nread < MaxFrames) => ENABLED S2CFrame(CallFrames)
            /\ s2c = "tool" => ENABLED S2CToolReturns)
    /\ [][(adapter_closed /\ s2c # "failed" /\ s2c' = "failed") =>
            first_exc' \in {"KeyError", "ValueError", "ToolError",
                            "ConnectionResetError"}]_vars
    /\ [][(/\ adapter_closed /\ c2s = "done" /\ tools_pending # {}
            /\ Len(from_model') = Len(from_model) + 1
            /\ Typed(Last(from_model'), "response.done")) =>
            (/\ Len(to_model') = Len(to_model) + 1
             /\ json_loads(Last(to_model').data) = [type |-> "response.create"])]_vars
    /\ [][(adapter_closed /\ c2s = "done" /\ s2c = "tool" /\ s2c' = "read") =>
            (/\ Len(to_model') = Len(to_model) + 1
             /\ Typed([type |-> "TEXT", data |-> Last(to_model').data],
                      "conversation.item.create"))]_vars

\* with the adapter variant whose send raises on a socket that is gone
\* unless the adapter is closed, on the native route: the model sent a
\* response.done, which a native client is sent, and nothing was written and
\* nothing raised, so the adapter was closed by then; the model then
\* announced a call and completed it, the executor ran and its output went
\* to the model
C40_Witness ==
    /\ ~is_acs_audio_stream /\ adapter_kind = "base"
    /\ adapter_closed /\ c2s = "done" /\ s2c = "read"
    /\ Len(from_model) = 3
    /\ Typed(from_model[1], "response.done")
    /\ Announces(from_model[2]) /\ Completes(from_model[3])
    /\ Len(executed) = 1 /\ executed[1].at = 3
    /\ OutputSent(3)
    /\ to_client = <<>>
====
